---- MODULE Spec2Model ----
(***************************************************************************)
(* Model of the Meross cloud session manager (meross-cloud-manager.js) and *)
(* of the minimal MQTT client it drives (simple-mqtt-client.js).           *)
(*                                                                         *)
(* JavaScript is single threaded: a turn of the event loop runs a callback *)
(* and every promise continuation it makes runnable, up to the next point  *)
(* where each coroutine waits for a timer, an HTTP response or a socket    *)
(* event.  Each action below is one such turn.  Time (Date.now(), in ms)   *)
(* only moves between turns (Tick); a timer fires at or after its deadline.*)
(***************************************************************************)
EXTENDS Integers, Sequences, FiniteSets, TLC

(* ---------------------------- bounds ----------------------------------- *)
MaxTicks == 2
MaxWaits == 6
MaxChannels == 3
MaxSessions == 3
MaxTimers == 2
MaxSessionCalls == 1
MaxLength == 2097151
MaxChars == 3
MaxBatch == 2

(* ------------------------ program constants ---------------------------- *)
httpMinIntervalMs == 10000
httpTimeoutMs == 10000
loginTtlMs == 21600000
loginBlockMs == 43200000
reconnectBackoff == 5000
maxBackoffMs == 300000
defaultNumChannels == 2
keepalive == 30
\* Date.now() when the process starts, shifted so that it fits an integer;
\* far enough from 0 that the first request never waits (httpLastRequestAt = 0).
StartTime == 100000000

\* the manager instances of the process
Managers == {1, 2}
\* how far the clock may move between two turns: less than the throttle
\* interval, the longest backoff, the cache lifetime (twice: the block), and
\* from the longest backoff to the length of the block
Deltas == {5000, maxBackoffMs, loginTtlMs, loginBlockMs - maxBackoffMs}
DeviceNames == {"plug", "nope"}
\* the managers that are connected to a device and drive it
DeviceManagers == {1}
\* the callers whose calls into one manager may overlap
Callers == {1, 2}
ConnackCodes == 0..5
\* how far the clock may move between two turns of a transport session: the
\* period of its keepalive interval
PingDeltas == {15000}
\* how far the clock may move between two signatures: within a second, and
\* over its end
SigningDeltas == {1, 999}
\* how far the clock may move while a response is on its way: half the
\* timeout of a request, and all of it
RequestDeltas == {5000, httpTimeoutMs}

VARIABLES
  now,                \* Date.now()
  ticks,              \* number of clock advances so far (bounded)
  sharedAuth,         \* static sharedAuth
  loginPromise,       \* static loginPromise: 0 (null) or the manager whose login it is
  loginBlockedUntil,  \* static loginBlockedUntil
  blockDeadline,      \* the deadline the last rate-limited signIn request set, 0
                      \* when none did since the last login that succeeded
  loginWaiters,       \* managers awaiting a login promise they did not start, in order
  httpLastRequestAt,  \* static httpLastRequestAt
  httpQueue,          \* static httpQueue: requests chained and not yet dispatched
  throttleWakeAt,     \* deadline of the throttle's setTimeout for the head of httpQueue
  inflight,           \* requests dispatched whose response has not come
  dispatchLog,        \* start times of the last two dispatches
  issued,             \* serial number of the last token the service issued
  revoked,            \* tokens the service has logged out
  mgr,                \* the MerossCloudManager instances
  cmgr,               \* a manager whose methods are called concurrently
  sessions,           \* the SimpleMqttClient instances that manager created, in order
  calls,              \* its turnOn/turnOff/disconnect calls that have not returned
  length,             \* the argument of a call of _encodeLength
  encoded,            \* the bytes it returned, <<>> before the call
  signing,            \* a manager that signs: its credentials, the inputs of the
                      \* signatures and the signatures it has computed
  packetLog,          \* the packet type _handleData logged last, where the log
                      \* is followed
  socketAt,           \* when data last came on the socket of a request, where
                      \* the chunks of a response are followed; 0 before
  matching,           \* a command, a G-code of a mapping and whether the handler
                      \* found that they match
  plugin              \* the plugin: its managers by device name and the call of
                      \* its onBeforeCommand handler

vars == <<now, ticks, sharedAuth, loginPromise, loginBlockedUntil, blockDeadline,
          loginWaiters,
          httpLastRequestAt, httpQueue, throttleWakeAt, inflight, dispatchLog,
          issued, revoked, mgr, cmgr, sessions, calls, length, encoded,
          signing, packetLog, socketAt, matching, plugin>>

authVars == <<sharedAuth, loginPromise, loginBlockedUntil, blockDeadline,
              loginWaiters, issued, revoked>>
httpVars == <<httpLastRequestAt, httpQueue, throttleWakeAt, inflight, dispatchLog>>
clockVars == <<now, ticks>>
transportVars == <<cmgr, sessions, calls>>
codecVars == <<length, encoded, signing, packetLog, socketAt, matching,
              plugin>>

Max(a, b) == IF a >= b THEN a ELSE b
Min(a, b) == IF a <= b THEN a ELSE b
Range(s) == {s[k] : k \in 1..Len(s)}

(* ------------------------------ values --------------------------------- *)
NoAuth == [set |-> FALSE, token |-> 0, key |-> 0, userId |-> 0, lastLoginAt |-> 0]
NoDevice == [set |-> FALSE, devName |-> "", channels |-> 0, uuid |-> ""]
NoClient == [set |-> FALSE, connected |-> FALSE, socket |-> FALSE, open |-> FALSE,
             pingTimer |-> FALSE, pending |-> FALSE]
NoError == [kind |-> "none", secs |-> 0]
Err(k) == [kind |-> k, secs |-> 0]
Request(m, ep) == [m |-> m, ep |-> ep]

\* a device as the service lists it; channels is the length of its channels
\* array (the master channel at index 0 included), 0 when it has none
Device(name, n) ==
  [set |-> TRUE, devName |-> name, channels |-> n, uuid |-> "uuid-of-" \o name]
DeviceLists == {<<>>} \cup {<<Device("plug", n)>> : n \in 0..MaxChannels}
\* what a signIn request may end with: data with token, key and userid ("ok"),
\* data with token and key but no userid ("noUserId"), data without token or
\* key ("invalid"), an API error of the rate-limit class, any other failure
SignInResponses == {"ok", "noUserId", "invalid", "rateLimit", "error"}
\* the responses that pass the check of the login response
Accepted == {"ok", "noUserId"}
DevListResponses ==
  {[kind |-> k, devices |-> <<>>] : k \in {"error", "notArray"}}
    \cup {[kind |-> "array", devices |-> l] : l \in DeviceLists}

\* constructor
NewManager ==
  [pc |-> "idle", op |-> "none", token |-> 0, key |-> 0, userId |-> 0,
   device |-> NoDevice, connected |-> FALSE, reconnectAttempts |-> 0,
   mqttClient |-> NoClient, deviceName |-> "", i |-> 0, onoff |-> 0,
   timerAt |-> 0, waitTime |-> 0, awaits |-> 0,
   error |-> NoError, result |-> "none", published |-> <<>>, tried |-> {},
   reconnects |-> 0, via |-> "none"]

\* new SimpleMqttClient(...) followed by connect(): a socket, CONNACK awaited
NewClient == [set |-> TRUE, connected |-> FALSE, socket |-> TRUE, open |-> TRUE,
              pingTimer |-> FALSE, pending |-> TRUE]

(* -------------------------- throttled queue ---------------------------- *)
ThrottleWait_min(lastAt) == Min(0, httpMinIntervalMs - (now - lastAt))
\* _throttleHttpRequest: the wait computed before a dispatch
ThrottleWait(lastAt) == Max(0, httpMinIntervalMs - (now - lastAt))

Logged(log, t) == IF Len(log) < 2 THEN Append(log, t) ELSE <<log[2], t>>

\* the promise chain runs on from its head: a request that need not wait is
\* dispatched in this turn, the first one that must wait sleeps
RECURSIVE Drain(_, _, _, _)
Drain(q, lastAt, fl, log) ==
  IF q = <<>>
  THEN [queue |-> q, last |-> lastAt, inflight |-> fl, wake |-> 0, log |-> log]
  ELSE LET w == ThrottleWait(lastAt) IN
       IF w > 0
       THEN [queue |-> q, last |-> lastAt, inflight |-> fl, wake |-> now + w, log |-> log]
       ELSE Drain(Tail(q), now, fl \cup {Head(q)}, Logged(log, now))

SetHttp(r) ==
  /\ httpQueue' = r.queue
  /\ httpLastRequestAt' = r.last
  /\ inflight' = r.inflight
  /\ throttleWakeAt' = r.wake
  /\ dispatchLog' = r.log

\* _makeRequest for each of reqs, in order, in the current turn; fl is the set
\* of requests still unanswered.  A chain whose head sleeps is only extended.
EnqueueAfter(fl, reqs) ==
  IF reqs = <<>> \/ httpQueue # <<>>
  THEN /\ httpQueue' = httpQueue \o reqs
       /\ inflight' = fl
       /\ UNCHANGED <<httpLastRequestAt, throttleWakeAt, dispatchLog>>
  ELSE SetHttp(Drain(reqs, httpLastRequestAt, fl, dispatchLog))

Enqueue(reqs) == EnqueueAfter(inflight, reqs)
Answered_dropsQueue(r, reqs) ==
  /\ httpQueue' = reqs
  /\ inflight' = inflight \ {r}
  /\ UNCHANGED <<httpLastRequestAt, throttleWakeAt, dispatchLog>>
\* the response to request r has come
Answered(r, reqs) == EnqueueAfter(inflight \ {r}, reqs)

ThrottleWake_last ==
  /\ httpQueue # <<>>
  /\ now >= throttleWakeAt
  /\ SetHttp(Drain(SubSeq(httpQueue, 1, Len(httpQueue) - 1), now,
                   inflight \cup {httpQueue[Len(httpQueue)]},
                   Logged(dispatchLog, now)))
  /\ UNCHANGED <<transportVars, codecVars, clockVars, authVars, mgr>>
\* the throttle's timer fires: the head is dispatched now, the rest runs on
ThrottleWake ==
  /\ httpQueue # <<>>
  /\ now >= throttleWakeAt
  /\ SetHttp(Drain(Tail(httpQueue), now, inflight \cup {Head(httpQueue)},
                   Logged(dispatchLog, now)))
  /\ UNCHANGED <<transportVars, codecVars, clockVars, authVars, mgr>>

\* the clock moves on by d between two turns
Tick(d) ==
  /\ ticks < MaxTicks
  /\ now' = now + d
  /\ ticks' = ticks + 1
  /\ UNCHANGED <<authVars, httpVars, mgr, transportVars, codecVars>>

\* the clock moves on by the longest wait of the throttle and of the backoff
Elapse ==
  /\ ticks < MaxWaits
  /\ now' = now + maxBackoffMs
  /\ ticks' = ticks + 1
  /\ UNCHANGED <<authVars, httpVars, mgr, transportVars, codecVars>>

(* ----------------------- how an operation ends ------------------------- *)
Finish(s, r) ==
  [s EXCEPT !.pc = "idle", !.op = "none", !.result = r, !.i = 0, !.onoff = 0,
            !.timerAt = 0, !.waitTime = 0, !.awaits = 0, !.deviceName = ""]
\* an error message, and what a manager keeps of the last error it met
Noted(e) == [kind |-> e.kind, secs |-> 0]
Fail(s, e) == Finish([s EXCEPT !.error = Noted(e)], "error")
\* an operation starts: what the previous one left for its caller is dropped
Begin(s, o) ==
  [s EXCEPT !.op = o, !.result = "none", !.error = NoError,
            !.published = <<>>, !.tried = {}, !.reconnects = 0,
            !.via = "none"]

(* ------------------------------ connect -------------------------------- *)
Backoff_uncapped(a) == reconnectBackoff * (2 ^ (a - 1))
\* connect, the catch block: the wait before the next attempt
Backoff(a) == Min(reconnectBackoff * (2 ^ (a - 1)), maxBackoffMs)

ConnectCatch_rethrow(s, e) ==
  [s EXCEPT !.connected = FALSE, !.pc = "idle", !.op = "none", !.result = "error",
            !.error = Noted(e), !.awaits = 0, !.deviceName = ""]
\* connect, the catch block: every failure inside the try is retried
ConnectCatch(s, e) ==
  LET a == s.reconnectAttempts + 1 IN
  [s EXCEPT !.connected = FALSE, !.reconnectAttempts = a,
            !.waitTime = Backoff(a), !.timerAt = now + Backoff(a),
            !.pc = "backoff", !.error = Noted(e), !.awaits = 0]

\* isConnected
isConnected(s) == s.connected /\ s.device.set /\ s.token # 0

\* devices.find(dev => dev.devName === deviceName)
Find(devices, name) ==
  IF \E k \in 1..Len(devices) : devices[k].devName = name
  THEN devices[CHOOSE k \in 1..Len(devices) :
                 /\ devices[k].devName = name
                 /\ \A j \in 1..(k - 1) : devices[j].devName # name]
  ELSE NoDevice

\* connect, after mqttClient.connect() resolved and both topics are subscribed
ConnectDone(s) == Finish(s, "ok")

\* _connectMqtt up to its await; s.pc = "mqtt" when it waits for CONNACK
ConnectMqtt(s) ==
  IF s.mqttClient.set /\ s.mqttClient.connected
  THEN s
  ELSE [s EXCEPT !.mqttClient = NewClient, !.pc = "mqtt"]

\* connect, from the device list to the transport
AfterDevList(s, devices) ==
  LET dev == Find(devices, s.deviceName) IN
  IF ~dev.set
  THEN ConnectCatch([s EXCEPT !.device = dev], Err("notFound"))
  ELSE LET t == ConnectMqtt([s EXCEPT !.device = dev, !.connected = TRUE,
                                      !.reconnectAttempts = 0,
                                      !.pc = "run"])
       IN IF t.pc = "mqtt" THEN t ELSE ConnectDone(t)

(* ------------------------------- _login -------------------------------- *)
BlockActive_cached == sharedAuth.set /\ loginBlockedUntil # 0 /\ now < loginBlockedUntil
\* _login: the block check that opens the try
BlockActive == loginBlockedUntil # 0 /\ now < loginBlockedUntil

\* Math.round((loginBlockedUntil - Date.now()) / 1000), never negative
WaitSeconds == Max(0, (loginBlockedUntil - now + 500) \div 1000)
BlockedError == [kind |-> "blocked", secs |-> WaitSeconds]

\* whether the decimal numeral of n contains "429"
RECURSIVE Includes429(_)
Includes429(n) == n >= 429 /\ (n % 1000 = 429 \/ Includes429(n \div 10))

\* _login, the catch block: message.includes('Beyond Login Limit') ||
\* message.includes('429') || message.includes('request too frequent').
\* The only number in the message of the block check is the wait in seconds.
IsRateLimitMessage(e) ==
  \/ e.kind = "rateLimit"
  \/ e.kind = "blocked" /\ Includes429(e.secs)

CacheFresh_never == FALSE
CacheFresh_lenient == sharedAuth.set /\ (now - sharedAuth.lastLoginAt) <= loginTtlMs
\* _login: the cached entry is reused while younger than the TTL
CacheFresh == sharedAuth.set /\ (now - sharedAuth.lastLoginAt) < loginTtlMs

AwaitsPending_never == FALSE
\* _login: a login is in flight, the caller awaits it
AwaitsPending == loginPromise # 0

CopyAuth(s) ==
  [s EXCEPT !.token = sharedAuth.token, !.key = sharedAuth.key,
            !.userId = sharedAuth.userId, !.via = "cache"]

\* what the caller of _login does when it returns true
OnLoginOk(s) ==
  IF s.op = "connect" THEN [s EXCEPT !.pc = "devlist", !.awaits = 0]
  ELSE Finish(s, "ok")
\* what the caller of _login does when it throws
OnLoginFail(s, e) ==
  IF s.op = "connect" THEN ConnectCatch(s, e) ELSE Fail(s, e)

DevListRequests(order) ==
  LET want(x) == mgr'[x].pc = "devlist" /\ mgr[x].pc # "devlist" IN
  [k \in 1..Len(SelectSeq(order, want)) |->
     Request(SelectSeq(order, want)[k], "devList")]

BlockAfter(e) ==
  IF IsRateLimitMessage(e) THEN now + loginBlockMs ELSE loginBlockedUntil

\* _login called by manager m, whose fields are s, up to its first await
Login(m, s) ==
  IF BlockActive
  THEN /\ mgr' = [mgr EXCEPT ![m] = OnLoginFail(s, BlockedError)]
       /\ loginPromise' = 0
       /\ loginBlockedUntil' = BlockAfter(BlockedError)
       /\ UNCHANGED <<sharedAuth, blockDeadline, loginWaiters, issued, revoked, httpVars>>
  ELSE IF CacheFresh
  THEN /\ mgr' = [mgr EXCEPT ![m] = OnLoginOk(CopyAuth(s))]
       /\ Enqueue(DevListRequests(<<m>>))
       /\ UNCHANGED authVars
  ELSE IF AwaitsPending
  THEN /\ mgr' = [mgr EXCEPT ![m] = [s EXCEPT !.pc = "login", !.awaits = loginPromise]]
       /\ loginWaiters' = Append(loginWaiters, m)
       /\ UNCHANGED <<sharedAuth, loginPromise, loginBlockedUntil, blockDeadline,
                      issued, revoked, httpVars>>
  ELSE /\ mgr' = [mgr EXCEPT ![m] = [s EXCEPT !.pc = "login", !.awaits = m]]
       /\ loginPromise' = m
       /\ Enqueue(<<Request(m, "signIn")>>)
       /\ UNCHANGED <<sharedAuth, loginBlockedUntil, blockDeadline, loginWaiters,
                      issued, revoked>>

\* a caller runs _login on its own (device discovery)
LoginCall(m) ==
  /\ mgr[m].pc = "idle"
  /\ Login(m, Begin(mgr[m], "login"))
  /\ UNCHANGED <<clockVars, transportVars, codecVars>>

\* connect(email, password, deviceName) is called
ConnectCall(m, name) ==
  /\ mgr[m].pc = "idle"
  /\ Login(m, [Begin(mgr[m], "connect") EXCEPT !.deviceName = name])
  /\ UNCHANGED <<clockVars, transportVars, codecVars>>

\* the retry timer of connect fires: connect is called again
BackoffWake(m) ==
  /\ mgr[m].pc = "backoff"
  /\ now >= mgr[m].timerAt
  /\ Login(m, [mgr[m] EXCEPT !.timerAt = 0, !.waitTime = 0, !.error = NoError])
  /\ UNCHANGED <<clockVars, transportVars, codecVars>>

Awaiting_owner(p) == <<p>>
\* the managers a settled login promise resumes: its owner, then its waiters
Awaiting(p) == <<p>> \o SelectSeq(loginWaiters, LAMBDA x : mgr[x].awaits = p)

Stored_atDispatch(resp) ==
  [set |-> TRUE, token |-> issued + 1, key |-> issued + 1,
   userId |-> IF resp = "noUserId" THEN 0 ELSE 1,
   lastLoginAt |-> httpLastRequestAt]
\* _login: the entry stored in sharedAuth from an accepted response; the
\* service issues a new token and key with each sign-in
Stored(resp) ==
  [set |-> TRUE, token |-> issued + 1, key |-> issued + 1,
   userId |-> IF resp = "noUserId" THEN 0 ELSE 1,
   lastLoginAt |-> now]

\* the response to a signIn request arrives (or the request fails)
SignInRespond(m, resp) ==
  /\ Request(m, "signIn") \in inflight
  /\ LET parts == Awaiting(m)
         still == SelectSeq(loginWaiters, LAMBDA x : mgr[x].awaits # m)
         auth == Stored(resp)
         e == Err(IF resp = "rateLimit" THEN "rateLimit"
                  ELSE IF resp = "invalid" THEN "invalid" ELSE "network")
     IN IF resp \in Accepted
        THEN /\ sharedAuth' = auth
             /\ loginBlockedUntil' = 0
             /\ blockDeadline' = 0
             /\ issued' = issued + 1
             /\ mgr' = [x \in Managers |->
                          IF x \in Range(parts)
                          THEN OnLoginOk([mgr[x] EXCEPT !.token = auth.token,
                                            !.key = auth.key, !.userId = auth.userId,
                                            !.via = IF x = m THEN "network"
                                                    ELSE "awaited"])
                          ELSE mgr[x]]
        ELSE /\ loginBlockedUntil' = BlockAfter(e)
             /\ blockDeadline' = IF resp = "rateLimit" THEN now + loginBlockMs
                                ELSE blockDeadline
             /\ mgr' = [x \in Managers |->
                          IF x \in Range(parts) THEN OnLoginFail(mgr[x], e) ELSE mgr[x]]
             /\ UNCHANGED <<sharedAuth, issued>>
  /\ loginPromise' = 0
  /\ loginWaiters' = SelectSeq(loginWaiters, LAMBDA x : mgr[x].awaits # m)
  /\ Answered(Request(m, "signIn"), DevListRequests(Awaiting(m)))
  /\ UNCHANGED <<transportVars, codecVars, clockVars, revoked>>

\* the response to a devList request arrives (or the request fails)
DevListRespond(m, resp) ==
  /\ Request(m, "devList") \in inflight
  /\ mgr' = [mgr EXCEPT ![m] =
               IF resp.kind = "error" THEN ConnectCatch(@, Err("network"))
               ELSE AfterDevList(@, resp.devices)]
  /\ Answered(Request(m, "devList"), <<>>)
  /\ UNCHANGED <<transportVars, codecVars, clockVars, authVars>>

(* --------------------------- device commands --------------------------- *)
\* the topic of a device and the ToggleX frame published to it
Topic(dev) == <<"appliance", dev.uuid, "subscribe">>
ToggleX(dev, c, v) == [topic |-> Topic(dev), channel |-> c, onoff |-> v]

Publish_twice(s, c, v) ==
  [s EXCEPT !.published = @ \o <<ToggleX(s.device, c, v), ToggleX(s.device, c, v)>>,
            !.tried = @ \cup {c}]
\* mqttClient.publish of a ToggleX command by _sendDeviceCommand
Publish(s, c, v) ==
  [s EXCEPT !.published = Append(@, ToggleX(s.device, c, v)),
            !.tried = @ \cup {c}]

\* _sendDeviceCommand without a connected transport: _connectMqtt, awaited
Reconnect(s, c) ==
  [s EXCEPT !.mqttClient = NewClient, !.pc = "mqtt", !.tried = @ \cup {c},
            !.reconnects = @ + 1]

\* turnOn(c) / turnOff(c) is called
ToggleCall(m, c, v) ==
  /\ mgr[m].pc = "idle"
  /\ LET s == [Begin(mgr[m], "toggle") EXCEPT !.i = c, !.onoff = v] IN
     mgr' = [mgr EXCEPT ![m] =
               IF ~isConnected(s) THEN Fail(s, Err("notConnected"))
               ELSE IF s.mqttClient.set /\ s.mqttClient.connected
               THEN Finish(Publish(s, c, v), "ok")
               ELSE Reconnect(s, c)]
  /\ UNCHANGED <<transportVars, codecVars, clockVars, authVars, httpVars>>

(* ----------------------------- disconnect ------------------------------ *)
\* this.device.channels?.length || 2
numChannels(dev) == IF dev.channels # 0 THEN dev.channels ELSE defaultNumChannels

\* the failsafe loop from channel s.i on, up to the end or to the first await
RECURSIVE OffLoop(_, _)
OffLoop(s, n) ==
  IF s.i > n THEN s
  ELSE IF ~isConnected(s)
  THEN OffLoop([s EXCEPT !.i = @ + 1], n)
  ELSE IF s.mqttClient.set /\ s.mqttClient.connected
  THEN OffLoop([Publish(s, s.i, 0) EXCEPT !.i = @ + 1], n)
  ELSE Reconnect(s, s.i)

\* SimpleMqttClient.disconnect
ClientDisconnect(c) ==
  IF c.socket
  THEN [c EXCEPT !.pingTimer = FALSE, !.open = FALSE, !.connected = FALSE]
  ELSE [c EXCEPT !.pingTimer = FALSE]

\* disconnect, its last assignments
Cleared(s) ==
  Finish([s EXCEPT !.connected = FALSE, !.device = NoDevice, !.token = 0,
                   !.key = 0, !.userId = 0, !.mqttClient = NoClient], "ok")

\* disconnect after the loop: close the transport, log out, clear
AfterOffLoop(s) ==
  LET t == IF s.mqttClient.set
           THEN [s EXCEPT !.mqttClient = ClientDisconnect(@)] ELSE s
  IN IF t.token # 0 THEN [t EXCEPT !.pc = "logout"] ELSE Cleared(t)

\* disconnect from the loop on, up to its next await
DisconnectFrom(s) ==
  LET t == OffLoop(s, numChannels(s.device)) IN
  IF t.pc = "mqtt" THEN t ELSE AfterOffLoop(t)

LogoutRequests(m) ==
  IF mgr'[m].pc = "logout" /\ mgr[m].pc # "logout"
  THEN <<Request(m, "logout")>> ELSE <<>>

\* disconnect() is called
DisconnectCall(m) ==
  /\ mgr[m].pc = "idle"
  /\ LET s == [Begin(mgr[m], "disconnect") EXCEPT !.pc = "run"] IN
     mgr' = [mgr EXCEPT ![m] =
               IF s.device.set /\ s.connected
               THEN DisconnectFrom([s EXCEPT !.i = 1])
               ELSE AfterOffLoop(s)]
  /\ Enqueue(LogoutRequests(m))
  /\ UNCHANGED <<transportVars, codecVars, clockVars, authVars>>

\* the response to a logout request arrives (ok: the service has logged the
\* token of the request out) or the request fails; both are only logged
LogoutRespond(m, ok) ==
  /\ Request(m, "logout") \in inflight
  /\ mgr' = [mgr EXCEPT ![m] = Cleared(@)]
  /\ revoked' = IF ok THEN revoked \cup {mgr[m].token} ELSE revoked
  /\ Answered(Request(m, "logout"), <<>>)
  /\ UNCHANGED <<transportVars, codecVars, clockVars, sharedAuth, loginPromise, loginBlockedUntil,
                 blockDeadline, loginWaiters, issued>>

(* ------------------------ a response on its way ----------------------- *)
TimeoutDue_sinceDispatch == now >= httpLastRequestAt + httpTimeoutMs
\* req.setTimeout(10000, ...): the socket of the request in flight has been
\* idle for the timeout (one manager has one request in flight, the one
\* dispatched last)
TimeoutDue == now >= Max(httpLastRequestAt, socketAt) + httpTimeoutMs

\* res.on('data'): a chunk of the response to the request in flight arrives
\* before the timeout is due; the socket has been active now
ResponseData(m) ==
  /\ \E r \in inflight : r.m = m
  /\ ~TimeoutDue
  /\ socketAt' = now
  /\ UNCHANGED <<clockVars, authVars, httpVars, mgr, transportVars, length,
                 encoded, signing, packetLog, matching, plugin>>

\* the timeout fires: req.destroy() and reject, the request fails
RequestTimeout(m) ==
  /\ TimeoutDue
  /\ \/ SignInRespond(m, "error")
     \/ LogoutRespond(m, FALSE)

(* ------------------------- transport events ---------------------------- *)
\* what awaited mqttClient.connect() does once it resolved
MqttOk(s) ==
  IF s.op = "connect" THEN ConnectDone(s)
  ELSE IF s.op = "toggle" THEN Finish(Publish(s, s.i, s.onoff), "ok")
  ELSE DisconnectFrom([Publish(s, s.i, 0) EXCEPT !.i = @ + 1, !.pc = "run"])

MqttFail_rethrow(s) ==
  IF s.op = "connect" THEN ConnectCatch(s, Err("mqtt"))
  ELSE Fail([s EXCEPT !.connected = FALSE], Err("reconnect"))
MqttFail_retry(s) ==
  IF s.op = "connect" THEN ConnectCatch(s, Err("mqtt"))
  ELSE IF s.op = "toggle" /\ s.reconnects < 2 THEN Reconnect(s, s.i)
  ELSE IF s.op = "toggle" THEN Fail([s EXCEPT !.connected = FALSE], Err("reconnect"))
  ELSE DisconnectFrom([s EXCEPT !.connected = FALSE, !.i = @ + 1, !.pc = "run"])
MqttFail_keepsConnected(s) ==
  IF s.op = "connect" THEN ConnectCatch(s, Err("mqtt"))
  ELSE IF s.op = "toggle" THEN Fail(s, Err("reconnect"))
  ELSE DisconnectFrom([s EXCEPT !.connected = FALSE, !.i = @ + 1, !.pc = "run"])
\* what awaited mqttClient.connect() does once it rejected
MqttFail(s) ==
  IF s.op = "connect" THEN ConnectCatch(s, Err("mqtt"))
  ELSE IF s.op = "toggle" THEN Fail([s EXCEPT !.connected = FALSE], Err("reconnect"))
  ELSE DisconnectFrom([s EXCEPT !.connected = FALSE, !.i = @ + 1, !.pc = "run"])

\* _handleData: a CONNACK arrives while connect() awaits it
MqttConnack(m, code) ==
  /\ mgr[m].pc = "mqtt"
  /\ mgr[m].mqttClient.pending
  /\ mgr' = [mgr EXCEPT ![m] =
               IF code = 0
               THEN MqttOk([@ EXCEPT !.mqttClient.connected = TRUE,
                                     !.mqttClient.pingTimer = TRUE,
                                     !.mqttClient.pending = FALSE])
               ELSE MqttFail([@ EXCEPT !.mqttClient.pending = FALSE])]
  /\ Enqueue(LogoutRequests(m))
  /\ UNCHANGED <<transportVars, codecVars, clockVars, authVars>>

\* the socket fails or closes before CONNACK
MqttDrop(m) ==
  /\ mgr[m].pc = "mqtt"
  /\ mgr[m].mqttClient.pending
  /\ mgr' = [mgr EXCEPT ![m] =
               MqttFail([@ EXCEPT !.mqttClient.connected = FALSE,
                                  !.mqttClient.pingTimer = FALSE,
                                  !.mqttClient.open = FALSE,
                                  !.mqttClient.pending = FALSE])]
  /\ Enqueue(LogoutRequests(m))
  /\ UNCHANGED <<transportVars, codecVars, clockVars, authVars>>

\* the socket of an established session closes
MqttClose(m) ==
  /\ mgr[m].mqttClient.set
  /\ mgr[m].mqttClient.open
  /\ ~mgr[m].mqttClient.pending
  /\ mgr' = [mgr EXCEPT ![m].mqttClient.connected = FALSE,
                        ![m].mqttClient.pingTimer = FALSE,
                        ![m].mqttClient.open = FALSE]
  /\ UNCHANGED <<transportVars, codecVars, clockVars, authVars, httpVars>>

(* ------------- the transport session and its concurrent callers -------- *)
\* The methods of a manager are async: a second turnOn/turnOff/disconnect may be
\* called while an earlier one awaits the transport or the logout response.
\* cmgr is such a manager, sessions the SimpleMqttClient instances it created.

Connack(code) == [type |-> "CONNACK", code |-> code]
\* an inbound packet: its type (data[0] >> 4) and, for CONNACK, data[3]
Frames ==
  {Connack(code) : code \in ConnackCodes}
    \cup {[type |-> t, code |-> 0] : t \in {"PINGRESP", "SUBACK", "PUBLISH", "OTHER"}}

\* what the broker sends while the manager runs: CONNACK accepting, CONNACK
\* refusing, and a frame that is only logged
BrokerFrames == {Connack(0), Connack(4), [type |-> "PINGRESP", code |-> 0]}

\* _handleData: the errors table
ConnackReason(code) ==
  CASE code = 1 -> "Connection refused: unacceptable protocol version"
    [] code = 2 -> "Connection refused: identifier rejected"
    [] code = 3 -> "Connection refused: server unavailable"
    [] code = 4 -> "Connection refused: bad username or password"
    [] code = 5 -> "Connection refused: not authorized"
    [] OTHER -> "Connection refused: code"

NoWrite == [frame |-> "none", socket |-> "none"]
\* new SimpleMqttClient(...).  socket: "none" (null), "connecting", "open",
\* "errored" (error emitted, close to follow), "closed"; ended: end() was called
\* on it; outcome: the promise of connect(); timers: when each interval that
\* runs fires next, the one this.pingTimer refers to last (pingTimer: it is not
\* null); acked: a CONNACK 0 has come; lastPingAt: when PINGREQ was last
\* written; pings: how many were written; thrown: what the last call of
\* subscribe or publish threw
Constructed ==
  [socket |-> "none", ended |-> FALSE, connected |-> FALSE,
   pingTimer |-> FALSE, connectResolved |-> FALSE, outcome |-> "none",
   reason |-> "", sockets |-> 0, connects |-> 0, disconnects |-> 0,
   lastWrite |-> NoWrite, messageId |-> 1, timers |-> <<>>, acked |-> FALSE,
   lastPingAt |-> 0, pings |-> 0, thrown |-> ""]

\* connect(): tls.connect called, handlers attached, the promise pending
Connecting(c) ==
  [c EXCEPT !.socket = "connecting", !.sockets = @ + 1, !.outcome = "pending",
            !.connectResolved = FALSE]

\* new SimpleMqttClient(...) and connect()
NewSession == Connecting(Constructed)

\* socket.write(packet): the frame and the state of the socket it was written to
Write(c, frame) ==
  [c EXCEPT !.lastWrite = [frame |-> frame,
                           socket |-> IF c.ended THEN "ended" ELSE c.socket]]

\* resolve / reject of the promise of connect(): a settled promise stays as it is
Settle(c, o, why) ==
  IF c.outcome = "pending" THEN [c EXCEPT !.outcome = o, !.reason = why] ELSE c

\* the 'connect' event of the socket: _sendConnect
OnSocketConnect(c) ==
  [Write([c EXCEPT !.socket = "open"], "CONNECT") EXCEPT !.connects = @ + 1]

\* (this.keepalive * 1000) / 2
PingInterval == (keepalive * 1000) \div 2

StartPingTimer_replace(c) ==
  [c EXCEPT !.pingTimer = TRUE,
            !.timers = (IF c.pingTimer THEN SubSeq(@, 1, Len(@) - 1) ELSE @)
                         \o <<now + PingInterval>>]
\* _startPingTimer: a new interval, this.pingTimer refers to it from now on
StartPingTimer(c) ==
  [c EXCEPT !.pingTimer = TRUE, !.timers = Append(@, now + PingInterval)]

\* clearInterval(this.pingTimer); this.pingTimer = null
ClearPingTimer(c) ==
  IF c.pingTimer
  THEN [c EXCEPT !.pingTimer = FALSE, !.timers = SubSeq(@, 1, Len(@) - 1)]
  ELSE c

HandleData_anycode(c, f) ==
  IF f.type = "CONNACK"
  THEN Settle(StartPingTimer([c EXCEPT !.connected = TRUE, !.acked = TRUE,
                                       !.connectResolved = TRUE]), "resolved", "")
  ELSE c
HandleData_subackConnects(c, f) ==
  IF f.type \in {"CONNACK", "SUBACK"}
  THEN IF f.code = 0
       THEN Settle(StartPingTimer([c EXCEPT !.connected = TRUE, !.acked = TRUE,
                                            !.connectResolved = TRUE]),
                   "resolved", "")
       ELSE Settle([c EXCEPT !.connectResolved = TRUE], "rejected",
                   ConnackReason(f.code))
  ELSE c
\* the 'data' event of the socket: _handleData with the callbacks of connect()
HandleData(c, f) ==
  IF f.type = "CONNACK"
  THEN IF f.code = 0
       THEN Settle(StartPingTimer([c EXCEPT !.connected = TRUE, !.acked = TRUE,
                                            !.connectResolved = TRUE]),
                   "resolved", "")
       ELSE Settle([c EXCEPT !.connectResolved = TRUE], "rejected",
                   ConnackReason(f.code))
  ELSE c

\* the 'error' event of the socket
OnError(c) ==
  LET d == [c EXCEPT !.socket = "errored"] IN
  IF ~d.connectResolved
  THEN Settle([d EXCEPT !.connectResolved = TRUE], "rejected", "socket error")
  ELSE d

\* the 'close' event of the socket
OnClose(c) ==
  LET d == ClearPingTimer([c EXCEPT !.socket = "closed", !.connected = FALSE]) IN
  IF ~d.connectResolved
  THEN Settle([d EXCEPT !.connectResolved = TRUE], "rejected",
              "MQTT connection closed before CONNACK")
  ELSE d

\* SimpleMqttClient.disconnect; this.socket is set once connect() was called
SessionDisconnect(c) ==
  IF c.socket = "none"
  THEN [ClearPingTimer(c) EXCEPT !.disconnects = @ + 1]
  ELSE [Write(ClearPingTimer(c), "DISCONNECT")
          EXCEPT !.ended = TRUE, !.connected = FALSE, !.disconnects = @ + 1]

NotConnectedError == "Not connected to MQTT broker"
SessionSubscribe_unchecked(c) ==
  [Write(c, "SUBSCRIBE") EXCEPT !.messageId = @ + 1, !.thrown = ""]
\* subscribe(topic)
SessionSubscribe(c) ==
  IF ~c.connected THEN [c EXCEPT !.thrown = NotConnectedError]
  ELSE [Write(c, "SUBSCRIBE") EXCEPT !.messageId = @ + 1, !.thrown = ""]

\* publish(topic, message)
SessionPublish(c) ==
  IF ~c.connected THEN [c EXCEPT !.thrown = NotConnectedError]
  ELSE [Write(c, "PUBLISH") EXCEPT !.thrown = ""]

\* the callback of interval i of the session runs: _sendPing when connected
\* and the socket is set, and the interval fires again one period later
PingTimerFires(c, i) ==
  LET d == [c EXCEPT !.timers[i] = now + PingInterval] IN
  IF c.connected /\ c.socket # "none"
  THEN [Write(d, "PINGREQ") EXCEPT !.lastPingAt = now, !.pings = @ + 1]
  ELSE d

\* constructor of the manager
NewConcurrentManager ==
  [connected |-> FALSE, device |-> NoDevice, token |-> 0, key |-> 0, userId |-> 0,
   mqttClient |-> 0]

\* a call of turnOn/turnOff ("toggle") or disconnect and the place it is at
NewCall(o, c, v) ==
  [op |-> o, pc |-> "run", channel |-> c, onoff |-> v, i |-> 0, n |-> 0, awaits |-> 0]
World(call) == [m |-> cmgr, s |-> sessions, call |-> call]

\* isConnected
ManagerConnected(w) == w.m.connected /\ w.m.device.set /\ w.m.token # 0
\* this.mqttClient && this.mqttClient.connected
TransportConnected(w) == w.m.mqttClient # 0 /\ w.s[w.m.mqttClient].connected

OpenSession_reuse(w) ==
  IF w.m.mqttClient = 0
  THEN [w EXCEPT !.s = Append(@, NewSession), !.m.mqttClient = Len(w.s) + 1,
                 !.call.pc = "mqtt", !.call.awaits = Len(w.s) + 1]
  ELSE [w EXCEPT !.s[w.m.mqttClient].socket = "connecting",
                 !.s[w.m.mqttClient].sockets = @ + 1,
                 !.s[w.m.mqttClient].outcome = "pending",
                 !.s[w.m.mqttClient].connectResolved = FALSE,
                 !.call.pc = "mqtt", !.call.awaits = w.m.mqttClient]
\* _connectMqtt without a connected transport: a new instance replaces the
\* reference and its connect() is awaited
OpenSession(w) ==
  [w EXCEPT !.s = Append(@, NewSession), !.m.mqttClient = Len(w.s) + 1,
            !.call.pc = "mqtt", !.call.awaits = Len(w.s) + 1]

\* _sendDeviceCommand from the message on: publish on the current reference
SendNow(w) ==
  [w EXCEPT !.s[w.m.mqttClient] = SessionPublish(@), !.call.pc = "sent"]

\* turnOn/turnOff from its entry to its await ("mqtt") or its end ("sent", "threw")
Turn(w) ==
  IF ~ManagerConnected(w) THEN [w EXCEPT !.call.pc = "threw"]
  ELSE IF TransportConnected(w) THEN SendNow(w)
  ELSE OpenSession(w)

\* turnOn/turnOff once the awaited connect() settled: _connectMqtt subscribes on
\* this.mqttClient, whatever it refers to by now, then the command is published
TurnResumed(w, ok) ==
  LET k == w.m.mqttClient
      threw(x) == [x EXCEPT !.m.connected = FALSE, !.call.pc = "threw"]
  IN IF ~ok \/ k = 0 THEN threw(w)
     ELSE LET t == [w EXCEPT !.s[k] = SessionSubscribe(SessionSubscribe(@))] IN
          IF t.s[k].thrown # "" \/ ~t.m.device.set THEN threw(t)
          ELSE SendNow(t)

\* disconnect, the failsafe loop from channel call.i on
RECURSIVE OffAll(_)
OffAll(w) ==
  IF w.call.i > w.call.n THEN w
  ELSE LET t == Turn(w) IN
       IF t.call.pc = "mqtt" THEN t
       ELSE OffAll([t EXCEPT !.call.pc = "run", !.call.i = @ + 1])

\* disconnect, its last assignments
Forget(w) == [w EXCEPT !.m = NewConcurrentManager, !.call.pc = "returned"]

\* disconnect after the loop: the transport, then the logout request
Shutdown(w) ==
  LET t == IF w.m.mqttClient # 0
           THEN [w EXCEPT !.s[w.m.mqttClient] = SessionDisconnect(@)] ELSE w
  IN IF t.m.token # 0 THEN [t EXCEPT !.call.pc = "logout"] ELSE Forget(t)

\* disconnect from the loop on
ShutdownFrom(w) ==
  LET t == OffAll(w) IN IF t.call.pc = "mqtt" THEN t ELSE Shutdown(t)

\* disconnect from its entry
DisconnectStart(w) ==
  IF w.m.device.set /\ w.m.connected
  THEN ShutdownFrom([w EXCEPT !.call.i = 1, !.call.n = numChannels(w.m.device)])
  ELSE Shutdown(w)

\* disconnect once the connect() its turnOff awaited settled
DisconnectResumed(w, ok) ==
  ShutdownFrom([TurnResumed(w, ok) EXCEPT !.call.pc = "run", !.call.i = @ + 1])

RemoveAt(seq, j) == SubSeq(seq, 1, j - 1) \o SubSeq(seq, j + 1, Len(seq))
\* the turn is over: call j waits on, or has returned or thrown
Commit(w, j) ==
  /\ cmgr' = w.m
  /\ sessions' = w.s
  /\ Len(w.s) <= MaxSessions
  /\ calls' = IF w.call.pc \in {"mqtt", "logout"}
              THEN IF j > Len(calls) THEN Append(calls, w.call)
                   ELSE [calls EXCEPT ![j] = w.call]
              ELSE RemoveAt(calls, j)

\* turnOn(c) (v = 1) or turnOff(c) (v = 0) is called
TurnCall(c, v) ==
  /\ Len(calls) < Cardinality(Callers)
  /\ Commit(Turn(World(NewCall("toggle", c, v))), Len(calls) + 1)
  /\ UNCHANGED <<clockVars, authVars, httpVars, mgr, codecVars>>

\* disconnect() is called
ShutdownCall ==
  /\ Len(calls) < Cardinality(Callers)
  /\ Commit(DisconnectStart(World(NewCall("disconnect", 0, 0))), Len(calls) + 1)
  /\ UNCHANGED <<clockVars, authVars, httpVars, mgr, codecVars>>

\* the logout request of call j is answered or fails: both are only logged
LogoutDone(j) ==
  /\ j \in 1..Len(calls)
  /\ calls[j].pc = "logout"
  /\ Commit(Forget(World(calls[j])), j)
  /\ UNCHANGED <<clockVars, authVars, httpVars, mgr, codecVars>>

\* a socket event has turned session k into c: the call that awaits its
\* connect() runs on in the same turn when the promise settles
Deliver(k, c) ==
  LET waiting == {j \in 1..Len(calls) : calls[j].pc = "mqtt" /\ calls[j].awaits = k}
      w(j) == [m |-> cmgr, s |-> [sessions EXCEPT ![k] = c], call |-> calls[j]]
      ok == c.outcome = "resolved"
  IN IF sessions[k].outcome = "pending" /\ c.outcome # "pending" /\ waiting # {}
     THEN LET j == CHOOSE x \in waiting : TRUE IN
          Commit(IF calls[j].op = "toggle" THEN TurnResumed(w(j), ok)
                 ELSE DisconnectResumed(w(j), ok), j)
     ELSE /\ sessions' = [sessions EXCEPT ![k] = c]
          /\ UNCHANGED <<cmgr, calls>>

\* the socket of session k connects
SessionSocketConnect(k) ==
  /\ k \in 1..Len(sessions)
  /\ sessions[k].socket = "connecting"
  /\ Deliver(k, OnSocketConnect(sessions[k]))
  /\ UNCHANGED <<clockVars, authVars, httpVars, mgr, codecVars>>

\* a frame arrives on the socket of session k
SessionData(k, f) ==
  /\ k \in 1..Len(sessions)
  /\ sessions[k].socket = "open"
  /\ Len(HandleData(sessions[k], f).timers) <= MaxTimers
  /\ Deliver(k, HandleData(sessions[k], f))
  /\ UNCHANGED <<clockVars, authVars, httpVars, mgr, codecVars>>

\* the same event with the log of _handleData followed: the packet type is
\* logged before anything else is done
DataLogged(k, f) ==
  /\ k \in 1..Len(sessions)
  /\ sessions[k].socket = "open"
  /\ Len(HandleData(sessions[k], f).timers) <= MaxTimers
  /\ Deliver(k, HandleData(sessions[k], f))
  /\ packetLog' = f.type
  /\ UNCHANGED <<clockVars, authVars, httpVars, mgr, length, encoded, signing,
                 socketAt, matching, plugin>>

\* a frame of the broker arrives on session k of the manager; a CONNACK 0
\* repeated to a session whose keepalive runs would only start one more interval
BrokerData(k, f) ==
  /\ k \in 1..Len(sessions)
  /\ ~(f = Connack(0) /\ sessions[k].pingTimer)
  /\ SessionData(k, f)

\* the socket of session k fails
SessionError(k) ==
  /\ k \in 1..Len(sessions)
  /\ sessions[k].socket \in {"connecting", "open"}
  /\ Deliver(k, OnError(sessions[k]))
  /\ UNCHANGED <<clockVars, authVars, httpVars, mgr, codecVars>>

\* the socket of session k is closed
SessionClose(k) ==
  /\ k \in 1..Len(sessions)
  /\ sessions[k].socket # "closed"
  /\ Deliver(k, OnClose(sessions[k]))
  /\ UNCHANGED <<clockVars, authVars, httpVars, mgr, codecVars>>

\* connect() is called on session k, once in its life
ConnectCalled(k) ==
  /\ k \in 1..Len(sessions)
  /\ sessions[k].socket = "none"
  /\ sessions' = [sessions EXCEPT ![k] = Connecting(@)]
  /\ UNCHANGED <<cmgr, calls, clockVars, authVars, httpVars, mgr, codecVars>>

\* subscribe(topic) is called on session k
SubscribeCalled(k) ==
  /\ k \in 1..Len(sessions)
  /\ sessions[k].messageId <= MaxSessionCalls
  /\ sessions' = [sessions EXCEPT ![k] = SessionSubscribe(@)]
  /\ UNCHANGED <<cmgr, calls, clockVars, authVars, httpVars, mgr, codecVars>>

\* publish(topic, message) is called on session k
PublishCalled(k) ==
  /\ k \in 1..Len(sessions)
  /\ sessions' = [sessions EXCEPT ![k] = SessionPublish(@)]
  /\ UNCHANGED <<cmgr, calls, clockVars, authVars, httpVars, mgr, codecVars>>

\* disconnect() is called on session k
DisconnectCalled(k) ==
  /\ k \in 1..Len(sessions)
  /\ sessions[k].disconnects < MaxSessionCalls
  /\ sessions' = [sessions EXCEPT ![k] = SessionDisconnect(@)]
  /\ UNCHANGED <<cmgr, calls, clockVars, authVars, httpVars, mgr, codecVars>>

\* interval i of session k is due and its callback runs
PingTimer(k, i) ==
  /\ k \in 1..Len(sessions)
  /\ i \in 1..Len(sessions[k].timers)
  /\ now >= sessions[k].timers[i]
  /\ sessions' = [sessions EXCEPT ![k] = PingTimerFires(@, i)]
  /\ UNCHANGED <<cmgr, calls, clockVars, authVars, httpVars, mgr, codecVars>>

\* connect() has returned true: the session got CONNACK 0 and both topics
\* were subscribed
ConnectedSession ==
  SessionSubscribe(SessionSubscribe(
    HandleData(OnSocketConnect(NewSession), Connack(0))))
ConnectedManager ==
  [connected |-> TRUE, device |-> Device("plug", defaultNumChannels), token |-> 1,
   key |-> 1, userId |-> 1, mqttClient |-> 1]

(* ----------------------------- frame codec ----------------------------- *)
\* _encodeLength, the do-while loop: the low seven bits first, the high bit set
\* on a byte when more follow
RECURSIVE EncodeLoop(_, _)
EncodeLoop(len, bytes) ==
  LET byte == len % 128
      rest == len \div 128
  IN IF rest > 0 THEN EncodeLoop(rest, Append(bytes, byte + 128))
     ELSE Append(bytes, byte)

encodeLength_oneByte(len) == <<len % 128>>
\* _encodeLength(length)
encodeLength(len) == EncodeLoop(len, <<>>)

\* the decoder of the MQTT remaining length: sum of (b & 0x7F) * 128^i
RECURSIVE DecodeLength(_)
DecodeLength(bytes) ==
  IF bytes = <<>> THEN 0
  ELSE (Head(bytes) % 128) + 128 * DecodeLength(Tail(bytes))

\* _encodeLength is called with the length drawn at the start
EncodeCall ==
  /\ encoded = <<>>
  /\ encoded' = encodeLength(length)
  /\ UNCHANGED <<length, signing, packetLog, socketAt, matching, plugin,
                 clockVars, authVars, httpVars, mgr, transportVars>>

(* --------------------------- G-code matching --------------------------- *)
\* a string is the sequence of its characters
Chars == {"M", "m", "8", "0", " "}
\* String.prototype.toUpperCase, character by character
UpperChar(ch) ==
  CASE ch = "m" -> "M"
    [] ch = "p" -> "P"
    [] OTHER -> ch
toUpperCase(str) == [k \in 1..Len(str) |-> UpperChar(str[k])]

\* String.prototype.trim, over strings whose only whitespace is the space
RECURSIVE trimStart(_)
trimStart(str) ==
  IF str # <<>> /\ Head(str) = " " THEN trimStart(Tail(str)) ELSE str
RECURSIVE trimEnd(_)
trimEnd(str) ==
  IF str # <<>> /\ str[Len(str)] = " "
  THEN trimEnd(SubSeq(str, 1, Len(str) - 1)) ELSE str
trim(str) == trimEnd(trimStart(str))

includes(str, ch) == \E k \in 1..Len(str) : str[k] = ch
startsWith(str, prefix) ==
  Len(prefix) <= Len(str) /\ SubSeq(str, 1, Len(prefix)) = prefix

gcodeMatches_prefix(gcode, commandUpper) ==
  LET gcodePattern == toUpperCase(trim(gcode)) IN
  IF includes(gcodePattern, " ")
  THEN commandUpper = gcodePattern
  ELSE commandUpper = gcodePattern \/ startsWith(commandUpper, gcodePattern)
\* the callback of mapping.gcodes.some(...): whether one G-code of a mapping
\* matches the command, trimmed and upper-cased by the handler
gcodeMatches(gcode, commandUpper) ==
  LET gcodePattern == toUpperCase(trim(gcode)) IN
  IF includes(gcodePattern, " ")
  THEN commandUpper = gcodePattern
  ELSE commandUpper = gcodePattern
         \/ startsWith(commandUpper, gcodePattern \o <<" ">>)

\* cmdObj.command.trim().toUpperCase()
CommandUpper(command) == toUpperCase(trim(command))

\* the strings of at most n characters
Strings(n) == UNION {[1..k -> Chars] : k \in 0..n}
\* the G-codes a mapping may hold and the commands a batch may hold: every
\* short string, and the command with a parameter of the documentation
Gcodes == Strings(MaxChars - 1)
CommandTexts == Strings(MaxChars) \cup {<<"M", "8", " ", "P", "1">>}

NotMatching == [command |-> <<>>, gcode |-> <<>>, called |-> FALSE, result |-> FALSE]

\* the handler compares a command with a G-code of a mapping
MatchCall ==
  /\ ~matching.called
  /\ matching' = [matching EXCEPT
                    !.called = TRUE,
                    !.result = gcodeMatches(matching.gcode,
                                            CommandUpper(matching.command))]
  /\ UNCHANGED <<length, encoded, signing, packetLog, socketAt, plugin,
                 clockVars, authVars, httpVars, mgr, transportVars>>

(* ------------------------------ the plugin ----------------------------- *)
\* The onBeforeCommand handler and the managers it holds.  A manager is seen
\* through its interface: connect() returns only with success and retries
\* until then, turnOn/turnOff return or throw and a throw leaves isConnected()
\* false, discovery returns or throws.

\* a command of a batch: a G-code line, $$DISCOVER_DEVICES$$, or a test command
\* $$TEST_<device>_<channel>_ON$$
Gcode(text) == [kind |-> "gcode", text |-> text, device |-> "", channel |-> 0]
Discover == [kind |-> "discover", text |-> <<>>, device |-> "", channel |-> 0]
Test(dev, ch) == [kind |-> "test", text |-> <<>>, device |-> dev, channel |-> ch]
M8 == <<"M", "8">>
M9 == <<"M", "9">>
G1 == <<"G", "1", " ", "X", "0">>
BatchCommands ==
  {Gcode(M8), Gcode(M9), Gcode(G1), Discover} \cup {Test(dev, 1) : dev \in DeviceNames}
Batches == UNION {[1..n -> BatchCommands] : n \in 1..MaxBatch}

\* settings.commandMappings: none, or M8 and M9 mapped to outlet 1 of the plug
Mapping(g, a) ==
  [gcodes |-> <<g>>, deviceName |-> "plug", channelIndex |-> 1, action |-> a]
MappingLists == {<<>>, <<Mapping(M8, "on"), Mapping(M9, "off")>>}
\* settings.discoveredDevices: how many outlets it gives for the plug, 0 when
\* it does not list the plug
DiscoveredOutlets == {0, 1}

\* the plugin after onLoad with the given settings.  managers: merossManagers,
\* per device name no manager ("none"), one whose isConnected() is true
\* ("connected") or false ("failed"); pc: where the handler is: "idle", waiting
\* ("discovery", "testConnect", "testToggle", "initConnect", "initOff",
\* "debounce", "toggle") or "returned"; k, j, d, i: the command, the mapping, the
\* device and the channel its loops are at; waiting: the connect() it awaits
\* is in the wait between a failed attempt and the next
PluginWith(creds, mappings, outlets) ==
  [creds |-> creds, mappings |-> mappings, outlets |-> outlets,
   managers |-> [dev \in DeviceNames |-> "none"],
   pc |-> "idle", commands |-> <<>>, k |-> 0, j |-> 0, d |-> 0, i |-> 0,
   waiting |-> FALSE, returned |-> <<>>]
\* getDefaultSettings: no credentials, no mapping, no discovered device
Loaded == PluginWith(FALSE, <<>>, 0)

\* the handler returns list
Return(p, list) == [p EXCEPT !.pc = "returned", !.returned = list]

\* devicesUsed: the device names of the mappings, each once
RECURSIVE DevicesUsed(_)
DevicesUsed(mappings) ==
  IF mappings = <<>> THEN <<>>
  ELSE LET rest == DevicesUsed(SubSeq(mappings, 1, Len(mappings) - 1))
           name == mappings[Len(mappings)].deviceName
       IN IF name \in Range(rest) THEN rest ELSE Append(rest, name)

\* mapping.gcodes.some(...)
Matches(mapping, commandUpper) ==
  \E g \in 1..Len(mapping.gcodes) : gcodeMatches(mapping.gcodes[g], commandUpper)

\* Object.values(merossManagers).some(m => m.isConnected())
HasConnectedManagers(p) == \E dev \in DeviceNames : p.managers[dev] = "connected"

RECURSIVE RunCommand(_)
\* the loop over the mappings for command k, from mapping j to its next await
RECURSIVE RunMappings(_)
RunMappings(p) ==
  IF p.j > Len(p.mappings)
  THEN RunCommand([p EXCEPT !.k = @ + 1, !.j = 1])
  ELSE LET mapping == p.mappings[p.j] IN
       IF /\ Matches(mapping, CommandUpper(p.commands[p.k].text))
          /\ p.managers[mapping.deviceName] = "connected"
       THEN [p EXCEPT !.pc = "debounce"]
       ELSE RunMappings([p EXCEPT !.j = @ + 1])

\* the handler after initializeMerossConnection has returned
AfterInit(p) ==
  IF ~HasConnectedManagers(p) THEN Return(p, p.commands)
  ELSE RunMappings([p EXCEPT !.j = 1])

\* initializeMerossConnection, from device d of devicesUsed on
InitFrom(p) ==
  IF p.d > Len(DevicesUsed(p.mappings)) THEN AfterInit(p)
  ELSE [p EXCEPT !.pc = "initConnect", !.waiting = FALSE]

\* initializeMerossConnection
InitConnection(p) ==
  IF ~p.creds \/ DevicesUsed(p.mappings) = <<>> THEN AfterInit(p)
  ELSE InitFrom([p EXCEPT !.d = 1])

\* the loop over the commands of the batch, from command k to its next await
RunCommand(p) ==
  IF p.k > Len(p.commands) THEN Return(p, p.commands)
  ELSE LET c == p.commands[p.k] IN
       IF c.kind = "discover"
       THEN IF ~p.creds THEN Return(p, <<>>) ELSE [p EXCEPT !.pc = "discovery"]
       ELSE IF c.kind = "test"
       THEN IF p.managers[c.device] # "connected"
            THEN [p EXCEPT !.pc = "testConnect", !.waiting = FALSE]
            ELSE [p EXCEPT !.pc = "testToggle"]
       ELSE IF ~HasConnectedManagers(p) THEN InitConnection(p)
       ELSE RunMappings([p EXCEPT !.j = 1])

PluginUnchanged ==
  UNCHANGED <<length, encoded, signing, packetLog, socketAt, matching,
              clockVars, authVars, httpVars, mgr, transportVars>>

\* the host calls the handler with a batch of commands
HandlerCalled(batch) ==
  /\ plugin.pc \in {"idle", "returned"}
  /\ plugin' = RunCommand([plugin EXCEPT !.commands = batch, !.k = 1, !.j = 1,
                                         !.d = 0, !.i = 0, !.waiting = FALSE,
                                         !.returned = <<>>])
  /\ PluginUnchanged

\* runDeviceDiscovery returns or throws: the handler returns the empty list
DiscoveryDone(ok) ==
  /\ plugin.pc = "discovery"
  /\ plugin' = Return(plugin, <<>>)
  /\ PluginUnchanged

\* the device whose manager the handler awaits
Awaited(p) ==
  IF p.pc \in {"testConnect", "testToggle"} THEN p.commands[p.k].device
  ELSE IF p.pc \in {"initConnect", "initOff"} THEN DevicesUsed(p.mappings)[p.d]
  ELSE p.mappings[p.j].deviceName

\* an attempt of the awaited connect() fails: connect() waits and calls itself
ConnectAttemptFails ==
  /\ plugin.pc \in {"testConnect", "initConnect"}
  /\ ~plugin.waiting
  /\ plugin' = [plugin EXCEPT !.waiting = TRUE]
  /\ PluginUnchanged

\* the timer of that wait fires: the next attempt of the awaited connect()
ConnectRetried ==
  /\ plugin.pc \in {"testConnect", "initConnect"}
  /\ plugin.waiting
  /\ plugin' = [plugin EXCEPT !.waiting = FALSE]
  /\ PluginUnchanged

\* the awaited connect() returns true: the account has the credentials and
\* lists the device
ConnectSucceeds ==
  /\ plugin.pc \in {"testConnect", "initConnect"}
  /\ ~plugin.waiting
  /\ plugin.creds /\ Awaited(plugin) = "plug"
  /\ LET held == [plugin EXCEPT !.managers[Awaited(plugin)] = "connected"] IN
     plugin' = IF plugin.pc = "testConnect" THEN [held EXCEPT !.pc = "testToggle"]
               ELSE IF plugin.outlets >= 1
               THEN [held EXCEPT !.pc = "initOff", !.i = 1]
               ELSE InitFrom([held EXCEPT !.d = @ + 1])
  /\ PluginUnchanged

\* the awaited turnOn/turnOff returns (ok) or throws
ToggleDone(ok) ==
  /\ plugin.pc \in {"testToggle", "initOff", "toggle"}
  /\ LET after == IF ok THEN plugin
                  ELSE [plugin EXCEPT !.managers[Awaited(plugin)] = "failed"] IN
     plugin' = IF plugin.pc = "testToggle" THEN Return(after, <<>>)
               ELSE IF plugin.pc = "initOff"
               THEN IF ok /\ plugin.i < plugin.outlets
                    THEN [after EXCEPT !.i = @ + 1]
                    ELSE InitFrom([after EXCEPT !.d = @ + 1])
               ELSE IF ok THEN RunMappings([after EXCEPT !.j = @ + 1])
               ELSE Return(after, after.commands)
  /\ PluginUnchanged

\* the timer of settings.minSignalDuration fires: turnOn/turnOff is called
DebounceFires ==
  /\ plugin.pc = "debounce"
  /\ plugin' = [plugin EXCEPT !.pc = "toggle"]
  /\ PluginUnchanged

(* ------------------------------ signatures ----------------------------- *)
\* crypto's MD5 and base64 of a string, kept symbolic: equal results come from
\* equal inputs only
Md5(parts) == [md5 |-> parts]
Base64(str) == [base64 |-> str]
\* no signature computed yet
NoSign == [md5 |-> <<>>]

\* _makeRequestInternal: const secret
HttpSecret == "23x17ahWarFH6w29"

HttpSign_sessionKey(s, timestamp, nonce, data) ==
  Md5(<<s.key, timestamp, nonce, Base64(data)>>)
\* _makeRequestInternal of manager s: the sign of the payload, from
\* _generateSignature(timestamp, nonce, base64Params, secret)
HttpSign(s, timestamp, nonce, data) ==
  Md5(<<HttpSecret, timestamp, nonce, Base64(data)>>)

CommandSign_constant(s, messageId) ==
  Md5(<<messageId, HttpSecret, now \div 1000>>)
\* _sendDeviceCommand of manager s: the sign of the message header, with
\* timestamp = Math.floor(Date.now() / 1000)
CommandSign(s, messageId) ==
  Md5(<<messageId, s.key, now \div 1000>>)

\* the credentials a manager may hold and what the random sources may yield
Credentials ==
  {[token |-> t, key |-> k] : t \in {"token1", "token2"}, k \in {"key1", "key2"}}
Nonces == {"0A1B2C3D4E5F6071", "8899AABBCCDDEEFF"}
MessageIds == {"00112233445566778899aabbccddeeff", "ffeeddccbbaa99887766554433221100"}
RequestData == {"{}", "{email,password}"}
NotSigning ==
  [s |-> [token |-> "", key |-> ""], nonce |-> "", data |-> "", messageId |-> "",
   httpAt |-> 0, commandAt |-> 0, http |-> NoSign, command |-> NoSign]

\* the manager builds and signs an HTTP request
SignRequest ==
  /\ signing.http = NoSign
  /\ \E nonce \in Nonces, data \in RequestData :
       signing' = [signing EXCEPT !.nonce = nonce, !.data = data, !.httpAt = now,
                                  !.http = HttpSign(signing.s, now, nonce, data)]
  /\ UNCHANGED <<length, encoded, packetLog, socketAt, matching, plugin,
                 clockVars, authVars, httpVars, mgr, transportVars>>

\* the manager builds and signs a device command
SignCommand ==
  /\ signing.command = NoSign
  /\ \E messageId \in MessageIds :
       signing' = [signing EXCEPT !.messageId = messageId, !.commandAt = now,
                                  !.command = CommandSign(signing.s, messageId)]
  /\ UNCHANGED <<length, encoded, packetLog, socketAt, matching, plugin,
                 clockVars, authVars, httpVars, mgr, transportVars>>

\* the manager logs in again: other credentials, what it signed is forgotten
Relogin ==
  /\ signing.http # NoSign /\ signing.command # NoSign
  /\ \E c \in Credentials \ {signing.s} : signing' = [NotSigning EXCEPT !.s = c]
  /\ UNCHANGED <<length, encoded, packetLog, socketAt, matching, plugin,
                 clockVars, authVars, httpVars, mgr, transportVars>>

(* --------------------------- specification ----------------------------- *)
InitShared ==
  /\ now = StartTime
  /\ ticks = 0
  /\ sharedAuth = NoAuth
  /\ loginPromise = 0
  /\ loginBlockedUntil = 0
  /\ blockDeadline = 0
  /\ loginWaiters = <<>>
  /\ httpLastRequestAt = 0
  /\ httpQueue = <<>>
  /\ throttleWakeAt = 0
  /\ inflight = {}
  /\ dispatchLog = <<>>
  /\ issued = 0
  /\ revoked = {}
  /\ mgr = [m \in Managers |-> NewManager]

NotEncoding ==
  /\ length = 0
  /\ encoded = <<>>
  /\ signing = NotSigning
  /\ packetLog = "none"
  /\ socketAt = 0
  /\ matching = NotMatching
  /\ plugin = Loaded

Init ==
  /\ InitShared
  /\ NotEncoding
  /\ cmgr = NewConcurrentManager
  /\ sessions = <<>>
  /\ calls = <<>>

\* the login gate and the request queue, shared by all managers: each manager
\* logs in and logs out (device discovery does both) while the clock runs
Next ==
  \/ \E d \in Deltas : Tick(d)
  \/ ThrottleWake
  \/ \E m \in Managers : LoginCall(m)
  \/ \E m \in Managers, resp \in SignInResponses : SignInRespond(m, resp)
  \/ \E m \in Managers : DisconnectCall(m)
  \/ \E m \in Managers, ok \in BOOLEAN : LogoutRespond(m, ok)

Spec == Init /\ [][Next]_vars

\* one manager over its whole life: connect, commands, disconnect
NextDevice ==
  \/ Elapse
  \/ ThrottleWake
  \/ \E m \in DeviceManagers, name \in DeviceNames : ConnectCall(m, name)
  \/ \E m \in DeviceManagers : BackoffWake(m)
  \/ \E m \in DeviceManagers, resp \in SignInResponses : SignInRespond(m, resp)
  \/ \E m \in DeviceManagers, resp \in DevListResponses : DevListRespond(m, resp)
  \/ \E m \in DeviceManagers, c \in 1..MaxChannels, v \in {0, 1} : ToggleCall(m, c, v)
  \/ \E m \in DeviceManagers : DisconnectCall(m)
  \/ \E m \in DeviceManagers, ok \in BOOLEAN : LogoutRespond(m, ok)
  \/ \E m \in DeviceManagers, code \in ConnackCodes : MqttConnack(m, code)
  \/ \E m \in DeviceManagers : MqttDrop(m)
  \/ \E m \in DeviceManagers : MqttClose(m)

SpecDevice == Init /\ [][NextDevice]_vars

\* a manager for which connect() has returned true, its methods then called in
\* any interleaving while the broker and the sockets behave in any way
InitTransport ==
  /\ InitShared
  /\ NotEncoding
  /\ cmgr = ConnectedManager
  /\ sessions = <<ConnectedSession>>
  /\ calls = <<>>

NextTransport ==
  \/ \E c \in {1}, v \in {0, 1} : TurnCall(c, v)
  \/ ShutdownCall
  \/ \E j \in 1..Cardinality(Callers) : LogoutDone(j)
  \/ \E k \in 1..MaxSessions : SessionSocketConnect(k)
  \/ \E k \in 1..MaxSessions, f \in BrokerFrames : BrokerData(k, f)
  \/ \E k \in 1..MaxSessions : SessionError(k)
  \/ \E k \in 1..MaxSessions : SessionClose(k)

SpecTransport == InitTransport /\ [][NextTransport]_vars

\* one SimpleMqttClient over its whole life: its methods called in any order,
\* any frame and any socket event arriving, its intervals firing as time passes
InitSession ==
  /\ InitShared
  /\ NotEncoding
  /\ cmgr = NewConcurrentManager
  /\ sessions = <<Constructed>>
  /\ calls = <<>>

NextSession ==
  \/ \E d \in PingDeltas : Tick(d)
  \/ ConnectCalled(1)
  \/ SubscribeCalled(1)
  \/ PublishCalled(1)
  \/ DisconnectCalled(1)
  \/ SessionSocketConnect(1)
  \/ \E f \in Frames : SessionData(1, f)
  \/ SessionError(1)
  \/ SessionClose(1)
  \/ \E i \in 1..MaxTimers : PingTimer(1, i)

SpecSession == InitSession /\ [][NextSession]_vars

\* the requests of one manager that logs in and out, the chunks of each
\* response and the timeout of each request followed
NextRequest ==
  \/ \E d \in RequestDeltas : Tick(d)
  \/ ThrottleWake
  \/ \E m \in DeviceManagers : LoginCall(m)
  \/ \E m \in DeviceManagers, resp \in SignInResponses : SignInRespond(m, resp)
  \/ \E m \in DeviceManagers : DisconnectCall(m)
  \/ \E m \in DeviceManagers, ok \in BOOLEAN : LogoutRespond(m, ok)
  \/ \E m \in DeviceManagers : ResponseData(m)
  \/ \E m \in DeviceManagers : RequestTimeout(m)

SpecRequest == Init /\ [][NextRequest]_vars

\* one SimpleMqttClient and what arrives on its socket, the log followed
NextInbound ==
  \/ ConnectCalled(1)
  \/ SubscribeCalled(1)
  \/ DisconnectCalled(1)
  \/ SessionSocketConnect(1)
  \/ \E f \in Frames : DataLogged(1, f)
  \/ SessionError(1)
  \/ SessionClose(1)

SpecInbound == InitSession /\ [][NextInbound]_vars

\* the handler called with batch after batch, under every setting
InitHandler ==
  /\ InitShared
  /\ cmgr = NewConcurrentManager
  /\ sessions = <<>>
  /\ calls = <<>>
  /\ length = 0
  /\ encoded = <<>>
  /\ signing = NotSigning
  /\ packetLog = "none"
  /\ socketAt = 0
  /\ matching = NotMatching
  /\ plugin \in {PluginWith(creds, mappings, outlets) :
                   creds \in BOOLEAN, mappings \in MappingLists,
                   outlets \in DiscoveredOutlets}

NextHandler ==
  \/ \E batch \in Batches : HandlerCalled(batch)
  \/ \E ok \in BOOLEAN : DiscoveryDone(ok)
  \/ ConnectAttemptFails
  \/ ConnectRetried
  \/ ConnectSucceeds
  \/ \E ok \in BOOLEAN : ToggleDone(ok)
  \/ DebounceFires

SpecHandler == InitHandler /\ [][NextHandler]_vars

\* the same, every timer firing, every attempt of connect() ending, and every
\* other call into a manager returning or throwing in the end
SpecHandlerLive ==
  /\ SpecHandler
  /\ WF_vars(DebounceFires)
  /\ WF_vars(ConnectRetried)
  /\ WF_vars(ConnectAttemptFails \/ ConnectSucceeds)
  /\ WF_vars(\E ok \in BOOLEAN : ToggleDone(ok))
  /\ WF_vars(\E ok \in BOOLEAN : DiscoveryDone(ok))

\* the matching of the handler applied to every command and G-code of
\* bounded length
InitMatch ==
  /\ InitShared
  /\ cmgr = NewConcurrentManager
  /\ sessions = <<>>
  /\ calls = <<>>
  /\ length = 0
  /\ encoded = <<>>
  /\ signing = NotSigning
  /\ packetLog = "none"
  /\ socketAt = 0
  /\ plugin = Loaded
  /\ matching \in {[NotMatching EXCEPT !.command = c, !.gcode = g] :
                     c \in CommandTexts, g \in Gcodes}

NextMatch == MatchCall

SpecMatch == InitMatch /\ [][NextMatch]_vars

\* the remaining-length encoder applied to every length up to MaxLength
InitCodec ==
  /\ InitShared
  /\ cmgr = NewConcurrentManager
  /\ sessions = <<>>
  /\ calls = <<>>
  /\ length \in 0..MaxLength
  /\ encoded = <<>>
  /\ signing = NotSigning
  /\ packetLog = "none"
  /\ socketAt = 0
  /\ matching = NotMatching
  /\ plugin = Loaded

NextCodec == EncodeCall

SpecCodec == InitCodec /\ [][NextCodec]_vars

\* a logged-in manager signs HTTP requests and device commands as time passes
InitSigning ==
  /\ InitShared
  /\ cmgr = NewConcurrentManager
  /\ sessions = <<>>
  /\ calls = <<>>
  /\ length = 0
  /\ encoded = <<>>
  /\ signing \in {[NotSigning EXCEPT !.s = c] : c \in Credentials}
  /\ packetLog = "none"
  /\ socketAt = 0
  /\ matching = NotMatching
  /\ plugin = Loaded

NextSigning ==
  \/ \E d \in SigningDeltas : Tick(d)
  \/ SignRequest
  \/ SignCommand
  \/ Relogin

SpecSigning == InitSigning /\ [][NextSigning]_vars

(* ------------------------------- claims -------------------------------- *)
SignInRequests == {r \in inflight \cup Range(httpQueue) : r.ep = "signIn"}

\* C1: at most one signIn request is enqueued or in flight at any time, and
\* every manager that is inside login() awaits the promise of that one request
AtMostOneLoginInFlight ==
  /\ Cardinality(SignInRequests) <= 1
  /\ \A m \in Managers :
       mgr[m].pc = "login" =>
         /\ loginPromise = mgr[m].awaits
         /\ Request(mgr[m].awaits, "signIn") \in SignInRequests
\* a second manager awaits the login the first one started
LoginAwaitedByAnother ==
  \E m \in Managers, w \in Managers :
    /\ m # w
    /\ mgr[m].pc = "login" /\ mgr[m].awaits = m
    /\ mgr[w].pc = "login" /\ mgr[w].awaits = m
    /\ Cardinality(SignInRequests) = 1

\* C2: the starts of two consecutive dispatches are at least httpMinIntervalMs apart
MinDispatchGap ==
  Len(dispatchLog) = 2 => dispatchLog[2] - dispatchLog[1] >= 10000
\* a request slept in the throttle and was dispatched exactly 10 s after its predecessor
DispatchedAfterThrottle ==
  /\ Len(dispatchLog) = 2
  /\ dispatchLog[2] - dispatchLog[1] = 10000

\* C3: a login attempted while the block is active fails in the same turn with
\* the 'blocked' error and enqueues or dispatches no request
BlockedLoginFailsFast ==
  [][\A m \in Managers :
       (/\ loginBlockedUntil # 0 /\ now < loginBlockedUntil
        /\ \/ LoginCall(m)
           \/ BackoffWake(m)
           \/ \E name \in DeviceNames : ConnectCall(m, name))
       => /\ mgr'[m].error.kind = "blocked"
          /\ mgr'[m].pc \in {"idle", "backoff"}
          /\ mgr'[m].pc = "idle" => mgr'[m].result = "error"
          /\ UNCHANGED <<httpQueue, inflight, httpLastRequestAt>>]_vars
\* a login was rejected by the block while no credentials were cached
BlockedWithoutCache ==
  \E m \in Managers :
    /\ mgr[m].pc = "idle" /\ mgr[m].error.kind = "blocked"
    /\ ~sharedAuth.set
    /\ loginBlockedUntil # 0 /\ now < loginBlockedUntil

\* C4: loginBlockedUntil is set, to now + 12 h, exactly by the failure of a
\* login request with a rate-limit error: a login rejected by the active block
\* and a login request failing otherwise leave it unchanged
BlockSetOnlyByRateLimit ==
  [][/\ \A m \in Managers :
          SignInRespond(m, "rateLimit") => loginBlockedUntil' = now + 43200000
     /\ \A m \in Managers, resp \in {"invalid", "error"} :
          SignInRespond(m, resp) => loginBlockedUntil' = loginBlockedUntil
     /\ \A m \in Managers :
          (loginBlockedUntil # 0 /\ now < loginBlockedUntil /\ LoginCall(m))
            => loginBlockedUntil' = loginBlockedUntil
     /\ loginBlockedUntil' \notin {0, loginBlockedUntil}
          => \E m \in Managers : SignInRespond(m, "rateLimit")]_vars

\* a connect attempt of m fails in this step: its catch block arms the retry timer
AttemptFails(m) ==
  /\ mgr'[m].pc = "backoff"
  /\ mgr[m].pc # "backoff" \/ mgr'[m].timerAt # mgr[m].timerAt
\* the retry timer of m fires in this step
RetryStarts(m) ==
  /\ mgr[m].pc = "backoff"
  /\ mgr'[m].pc # "backoff" \/ mgr'[m].timerAt # mgr[m].timerAt

\* C5: connect() ends only by returning true after an attempt that succeeded
\* at every step; a failed attempt arms the retry timer, and when the timer
\* fires the next attempt starts
ConnectRetriesUntilSuccess ==
  [][\A m \in Managers :
       mgr[m].op = "connect" =>
         /\ mgr'[m].op # "connect" =>
              /\ mgr'[m].pc = "idle" /\ mgr'[m].result = "ok"
              /\ mgr'[m].token # 0
              /\ mgr'[m].device.set /\ mgr'[m].device.devName = mgr[m].deviceName
              /\ mgr'[m].connected
              /\ mgr'[m].mqttClient.set /\ mgr'[m].mqttClient.connected
         /\ (mgr'[m].error.kind # "none" /\ mgr'[m].error # mgr[m].error) =>
              /\ AttemptFails(m)
              /\ mgr'[m].timerAt > now
         /\ RetryStarts(m) =>
              /\ now >= mgr[m].timerAt
              /\ mgr'[m].pc \in {"login", "devlist", "backoff"}]_vars
\* connect() is still retrying after three failed attempts
ConnectStillRetrying ==
  \E m \in Managers :
    /\ mgr[m].op = "connect" /\ mgr[m].pc = "backoff"
    /\ mgr[m].reconnectAttempts >= 3

\* C6: connect() with a name that no listed device has reports the error to its
\* caller at once and does not retry
DeviceNotFoundSurfaced ==
  \A m \in Managers :
    mgr[m].error.kind = "notFound" =>
      /\ mgr[m].pc = "idle" /\ mgr[m].op = "none"
      /\ mgr[m].result = "error"

\* C7: the attempt counter returns to zero only in the step in which connect()
\* returns true, the transport connected
CounterResetOnlyOnSuccess ==
  [][\A m \in Managers :
       (mgr[m].reconnectAttempts > 0 /\ mgr'[m].reconnectAttempts = 0) =>
         /\ mgr'[m].pc = "idle" /\ mgr'[m].result = "ok"
         /\ mgr'[m].mqttClient.set /\ mgr'[m].mqttClient.connected]_vars

ExpectedWait(a) ==
  IF a >= 7 THEN 300000
  ELSE <<5000, 10000, 20000, 40000, 80000, 160000>>[a]

\* C8: a failed attempt increments the counter to a and waits
\* min(5000 * 2^(a-1), 300000) ms: 5000, 10000, ..., 160000, then 300000
BackoffSchedule ==
  [][\A m \in Managers :
       AttemptFails(m) =>
         LET a == mgr'[m].reconnectAttempts IN
         /\ a = mgr[m].reconnectAttempts + 1
         /\ mgr'[m].waitTime = ExpectedWait(a)
         /\ mgr'[m].timerAt = now + ExpectedWait(a)
         /\ a > 1 => ExpectedWait(a) >= ExpectedWait(a - 1)]_vars
\* the seventh failure in a row waits the capped 300 s
BackoffCapped ==
  \E m \in Managers :
    /\ mgr[m].pc = "backoff"
    /\ mgr[m].reconnectAttempts >= 7
    /\ mgr[m].waitTime = 300000

\* C9: in disconnect(), once an 'off' has been attempted, an 'off' is attempted
\* (published, or a transport reconnect tried) for every outlet of the device,
\* and the transport is closed and the logout requested
OffAttemptedForEveryChannel ==
  \A m \in Managers :
    (mgr[m].op = "disconnect" /\ mgr[m].pc = "logout" /\ mgr[m].tried # {}) =>
      /\ \A c \in 1..(mgr[m].device.channels - 1) : c \in mgr[m].tried
      /\ ~mgr[m].mqttClient.open /\ ~mgr[m].mqttClient.connected
      /\ Request(m, "logout") \in inflight \cup Range(httpQueue)

\* C10: disconnect() on a connected manager publishes 'off' for the channels
\* 1..N of its device, N the number of channels without the master channel,
\* each once, and for no other channel
OffForExactlyTheOutlets ==
  \A m \in Managers :
    (/\ mgr[m].op = "disconnect" /\ mgr[m].pc = "logout"
     /\ mgr[m].connected /\ mgr[m].published # <<>>
     /\ mgr[m].device.channels >= 1) =>
      mgr[m].published =
        [k \in 1..(mgr[m].device.channels - 1) |-> ToggleX(mgr[m].device, k, 0)]

\* C11: disconnect() throws nothing and goes on after every failing step; when
\* it completes, connected is false and device, token, key, userId and
\* mqttClient are null; while it runs it waits for an event that is pending
DisconnectAlwaysCompletes ==
  [][\A m \in Managers :
       (mgr[m].op = "disconnect" \/ (mgr[m].pc = "idle" /\ DisconnectCall(m))) =>
         /\ mgr'[m].error.kind = "none"
         /\ mgr'[m].op \in {"disconnect", "none"}
         /\ mgr'[m].op = "none" =>
              /\ mgr'[m].pc = "idle" /\ mgr'[m].result = "ok"
              /\ ~mgr'[m].connected /\ ~mgr'[m].device.set
              /\ mgr'[m].token = 0 /\ mgr'[m].key = 0 /\ mgr'[m].userId = 0
              /\ ~mgr'[m].mqttClient.set
         /\ mgr'[m].op = "disconnect" =>
              \/ mgr'[m].pc = "mqtt" /\ mgr'[m].mqttClient.pending
              \/ /\ mgr'[m].pc = "logout"
                 /\ Request(m, "logout") \in inflight' \cup Range(httpQueue')]_vars
\* a disconnect() has completed whose 'off' command failed on the transport
DisconnectCompletedAfterFailure ==
  \E m \in Managers :
    /\ mgr[m].pc = "idle" /\ mgr[m].result = "ok"
    /\ ~mgr[m].device.set /\ mgr[m].token = 0
    /\ mgr[m].reconnects = 1 /\ mgr[m].published = <<>>

\* C12: a login() that returns after the token of the cache was logged out by a
\* disconnect() does not hand out that token
NoLoggedOutTokenFromCache ==
  [][\A m \in Managers :
       (LoginCall(m) /\ mgr'[m].result = "ok") => mgr'[m].token \notin revoked]_vars

\* C13: turnOn(c) / turnOff(c) with the transport connected publishes exactly
\* one frame, to /appliance/{uuid}/subscribe with togglex {channel: c, onoff: 1
\* or 0}, and returns in the same turn, no transport connect started
CommandPublishesOneFrame ==
  [][\A m \in Managers, c \in 1..MaxChannels, v \in {0, 1} :
       (/\ isConnected(mgr[m])
        /\ mgr[m].mqttClient.set /\ mgr[m].mqttClient.connected
        /\ mgr[m].pc = "idle"
        /\ ToggleCall(m, c, v)) =>
         /\ mgr'[m].published =
              <<[topic |-> <<"appliance", mgr[m].device.uuid, "subscribe">>,
                 channel |-> c, onoff |-> v]>>
         /\ mgr'[m].pc = "idle" /\ mgr'[m].result = "ok"
         /\ mgr'[m].reconnects = 0
         /\ mgr'[m].mqttClient = mgr[m].mqttClient]_vars
\* a turnOn has been published on the connected transport
TurnOnPublished ==
  \E m \in Managers :
    /\ mgr[m].pc = "idle" /\ mgr[m].result = "ok" /\ mgr[m].device.set
    /\ mgr[m].reconnects = 0
    /\ Len(mgr[m].published) = 1 /\ mgr[m].published[1].onoff = 1

\* C14: a command that finds the transport not connected starts exactly one
\* transport connect; CONNACK 0 publishes the command on the new session, any
\* other outcome fails the command with nothing published and no second connect
OneReconnectPerCommand ==
  [][\A m \in Managers :
       /\ (/\ isConnected(mgr[m])
           /\ ~(mgr[m].mqttClient.set /\ mgr[m].mqttClient.connected)
           /\ mgr[m].pc = "idle"
           /\ \E c \in 1..MaxChannels, v \in {0, 1} : ToggleCall(m, c, v)) =>
            /\ mgr'[m].pc = "mqtt" /\ mgr'[m].reconnects = 1
            /\ mgr'[m].mqttClient.pending /\ mgr'[m].published = <<>>
       /\ (mgr[m].op = "toggle" /\ mgr[m].pc = "mqtt" /\ mgr'[m] # mgr[m]) =>
            /\ mgr'[m].pc = "idle" /\ mgr'[m].reconnects = 1
            /\ ~mgr'[m].mqttClient.pending
            /\ IF MqttConnack(m, 0)
               THEN /\ mgr'[m].result = "ok"
                    /\ mgr'[m].mqttClient.connected
                    /\ mgr'[m].published =
                         <<ToggleX(mgr[m].device, mgr[m].i, mgr[m].onoff)>>
               ELSE /\ mgr'[m].result = "error"
                    /\ mgr'[m].error.kind = "reconnect"
                    /\ mgr'[m].published = <<>>
                    /\ ~mgr'[m].mqttClient.connected]_vars
\* a command failed after its one reconnect attempt was refused
CommandFailedAfterReconnect ==
  \E m \in Managers :
    /\ mgr[m].pc = "idle" /\ mgr[m].result = "error"
    /\ mgr[m].error.kind = "reconnect"
    /\ mgr[m].reconnects = 1 /\ mgr[m].published = <<>>

\* C19: managers inside login() together share one signIn request, and when it
\* succeeds each of them returns true holding the token, key and userId of the
\* shared cache entry
ConcurrentLoginsShareOneRequest ==
  [][\A m \in Managers :
       LET callers == {x \in Managers : mgr[x].pc = "login"} IN
       /\ Cardinality(callers) >= 2 => Cardinality(SignInRequests) = 1
       /\ SignInRespond(m, "ok") =>
            /\ SignInRequests' = {}
            /\ sharedAuth'.set /\ sharedAuth'.token # 0
            /\ \A x \in callers :
                 /\ mgr'[x].pc = "idle" /\ mgr'[x].result = "ok"
                 /\ mgr'[x].token = sharedAuth'.token
                 /\ mgr'[x].key = sharedAuth'.key
                 /\ mgr'[x].userId = sharedAuth'.userId]_vars
\* two managers returned from one network login, one its owner, one awaiting it
BothReturnedFromOneLogin ==
  \E m \in Managers, w \in Managers :
    /\ mgr[m].pc = "idle" /\ mgr[m].result = "ok" /\ mgr[m].via = "network"
    /\ mgr[w].pc = "idle" /\ mgr[w].result = "ok" /\ mgr[w].via = "awaited"
    /\ mgr[m].token = sharedAuth.token /\ mgr[w].token = sharedAuth.token
    /\ sharedAuth.lastLoginAt = now

\* C20 as stated: login() with a cache entry younger than 6 h returns it with no
\* request; with an entry of 6 h or more the caller starts or awaits a network
\* login
CachedEntryServedElseNetwork ==
  [][\A m \in Managers :
       (LoginCall(m) /\ sharedAuth.set) =>
         IF now - sharedAuth.lastLoginAt < 21600000
         THEN /\ mgr'[m].pc = "idle" /\ mgr'[m].result = "ok"
              /\ mgr'[m].token = sharedAuth.token /\ mgr'[m].key = sharedAuth.key
              /\ mgr'[m].userId = sharedAuth.userId
              /\ UNCHANGED <<httpQueue, inflight, httpLastRequestAt, sharedAuth>>
         ELSE /\ mgr'[m].pc = "login"
              /\ Request(mgr'[m].awaits, "signIn") \in SignInRequests']_vars

\* C20 amended: as above, but with an entry of 6 h or more and the LoginBlock
\* active the caller is rejected, no request issued and nothing taken from the
\* cache
CachedEntryServedElseNetworkOrBlocked ==
  [][\A m \in Managers :
       (LoginCall(m) /\ sharedAuth.set) =>
         IF now - sharedAuth.lastLoginAt < 21600000
         THEN /\ mgr'[m].pc = "idle" /\ mgr'[m].result = "ok"
              /\ mgr'[m].token = sharedAuth.token /\ mgr'[m].key = sharedAuth.key
              /\ mgr'[m].userId = sharedAuth.userId
              /\ UNCHANGED <<httpQueue, inflight, httpLastRequestAt, sharedAuth>>
         ELSE IF loginBlockedUntil # 0 /\ now < loginBlockedUntil
         THEN /\ mgr'[m].pc = "idle" /\ mgr'[m].result = "error"
              /\ mgr'[m].error.kind = "blocked"
              /\ mgr'[m].token = mgr[m].token
              /\ UNCHANGED <<httpQueue, inflight, httpLastRequestAt, sharedAuth>>
         ELSE /\ mgr'[m].pc = "login"
              /\ Request(mgr'[m].awaits, "signIn") \in SignInRequests']_vars
\* a login() found an entry exactly 6 h old and went to the network
ExpiredEntryNotReturned ==
  \E m \in Managers :
    /\ mgr[m].pc = "login" /\ mgr[m].awaits = m
    /\ sharedAuth.set /\ now - sharedAuth.lastLoginAt = 21600000

\* C15: the promise of connect() resolves only in the turn that handles a
\* CONNACK with return code 0, which also sets connected (it is still set when
\* the turn ends unless the resumed caller disconnects); while it is pending a
\* CONNACK with another code rejects it with the mapped reason (4: bad username
\* or password) and an error or a close of the socket rejects it; once settled
\* it never changes
ConnectSettlesOnConnack ==
  [][\A k \in 1..Len(sessions) :
       LET c == sessions[k]
           d == sessions'[k]
       IN /\ (c.outcome = "pending" /\ d.outcome = "resolved") =>
               /\ SessionData(k, Connack(0))
               /\ d.connected \/ d.disconnects > c.disconnects
          /\ \A code \in ConnackCodes \ {0} :
               (c.outcome = "pending" /\ SessionData(k, Connack(code))) =>
                 /\ d.outcome = "rejected" /\ ~d.connected
                 /\ d.reason # "" /\ d.reason # "Connection refused: code"
                 /\ code = 4 =>
                      d.reason = "Connection refused: bad username or password"
          /\ (c.outcome = "pending" /\ (SessionError(k) \/ SessionClose(k))) =>
               d.outcome = "rejected"
          /\ c.outcome \in {"resolved", "rejected"} =>
               d.outcome = c.outcome /\ d.reason = c.reason]_vars
\* a connect() was rejected by CONNACK 4
RefusedBadCredentials ==
  \E k \in 1..Len(sessions) :
    /\ sessions[k].outcome = "rejected"
    /\ sessions[k].reason = "Connection refused: bad username or password"
    /\ ~sessions[k].connected

\* C16: once disconnect() has been called on a session its connected flag is
\* false whatever arrives afterwards, and no PUBLISH is written to its socket
DisconnectedStaysDisconnected ==
  \A k \in 1..Len(sessions) :
    sessions[k].disconnects > 0 =>
      /\ ~sessions[k].connected
      /\ ~(sessions[k].lastWrite.frame = "PUBLISH"
           /\ sessions[k].lastWrite.socket = "ended")

\* C17: every disconnect() of a session stops its keepalive timer, leaves
\* connected false and writes DISCONNECT only to a socket that no earlier
\* disconnect() has ended
DisconnectSafeInEveryState ==
  [][\A k \in 1..Len(sessions) :
       sessions'[k].disconnects > sessions[k].disconnects =>
         /\ ~sessions'[k].pingTimer /\ ~sessions'[k].connected
         /\ sessions'[k].lastWrite.frame = "DISCONNECT" => ~sessions[k].ended]_vars

\* C18: a session whose connect() is pending has opened one socket and written
\* at most one CONNECT frame, also when the manager has started another connect
OneConnectPerSession ==
  \A k \in 1..Len(sessions) :
    sessions[k].outcome = "pending" =>
      sessions[k].sockets = 1 /\ sessions[k].connects <= 1
\* two calls of the manager await a CONNACK at once, each on a session of its own
TwoSessionsPending ==
  \E j \in 1..Len(sessions), k \in 1..Len(sessions) :
    /\ j # k
    /\ sessions[j].outcome = "pending" /\ sessions[j].connects = 1
    /\ sessions[k].outcome = "pending" /\ sessions[k].connects = 1

\* C21: the shared cache is empty or holds a token, a key and a userId, none
\* of them empty, and a manager holds token, key and userId all three or none
CredentialsAcquiredTogether ==
  /\ sharedAuth.set =>
       sharedAuth.token # 0 /\ sharedAuth.key # 0 /\ sharedAuth.userId # 0
  /\ \A m \in Managers :
       \/ mgr[m].token # 0 /\ mgr[m].key # 0 /\ mgr[m].userId # 0
       \/ mgr[m].token = 0 /\ mgr[m].key = 0 /\ mgr[m].userId = 0

\* C22: when a signIn request succeeds, the shared cache holds the returned
\* token, key and userId with lastLoginAt the time of the success, and
\* loginBlockedUntil is 0 whatever it was before
SuccessStoresAndClearsBlock ==
  [][\A m \in Managers, resp \in Accepted :
       SignInRespond(m, resp) =>
         /\ sharedAuth'.set
         /\ sharedAuth'.token = issued + 1 /\ sharedAuth'.key = issued + 1
         /\ sharedAuth'.token = mgr'[m].token /\ sharedAuth'.key = mgr'[m].key
         /\ sharedAuth'.userId = mgr'[m].userId
         /\ sharedAuth'.lastLoginAt = now
         /\ loginBlockedUntil' = 0]_vars
\* a login succeeded at the deadline of the block that the rate-limited login
\* of another manager had set 12 h before
SuccessClearedExpiredBlock ==
  \E m \in Managers, w \in Managers :
    /\ m # w
    /\ mgr[w].pc = "idle" /\ mgr[w].error.kind = "rateLimit"
    /\ mgr[m].pc = "idle" /\ mgr[m].via = "network"
    /\ sharedAuth.set /\ sharedAuth.lastLoginAt = now
    /\ now = StartTime + loginBlockMs
    /\ loginBlockedUntil = 0

\* C23: a login attempted once the deadline set by a rate-limited signIn
\* request has passed is not rejected as blocked: it starts or awaits a network
\* login, or returns a fresh cache entry
BlockEndsAtDeadline ==
  [][\A m \in Managers :
       (LoginCall(m) /\ blockDeadline # 0 /\ now >= blockDeadline) =>
         /\ mgr'[m].error.kind # "blocked"
         /\ IF CacheFresh
            THEN mgr'[m].result = "ok" /\ mgr'[m].token = sharedAuth.token
            ELSE /\ mgr'[m].pc = "login"
                 /\ Request(mgr'[m].awaits, "signIn") \in SignInRequests']_vars

\* C24: requests leave the queue in the order in which they were submitted,
\* whichever manager submitted them: a request is dispatched only together
\* with or after every request submitted before it, those that stay keep their
\* order, and a request submitted in this turn goes behind them
DispatchInSubmissionOrder ==
  [][LET q == httpQueue
         left(i) == q[i] \notin Range(httpQueue')
         stay == Cardinality({i \in 1..Len(q) : ~left(i)})
     IN /\ \A i \in 1..Len(q), j \in 1..Len(q) : (i < j /\ left(j)) => left(i)
        /\ \A i \in 1..Len(q) : left(i) => q[i] \in inflight'
        /\ Len(httpQueue') >= stay
        /\ SubSeq(httpQueue', 1, stay) = SubSeq(q, Len(q) - stay + 1, Len(q))
        /\ (\E r \in inflight' : r \notin inflight /\ r \notin Range(q)) => stay = 0]_vars
\* the requests of two managers wait in the queue, one behind the other, the
\* first until the throttle's timer fires
TwoManagersQueued ==
  /\ Len(httpQueue) >= 2
  /\ httpQueue[1].m # httpQueue[2].m
  /\ throttleWakeAt > now

Outstanding == inflight \cup Range(httpQueue)

\* C25: a request that fails (rejected response, network error, timeout) takes
\* no other request with it and fails no manager but those awaiting it, and the
\* request at the head of the queue always has the throttle's timer pending,
\* due within the minimum interval
FailureDoesNotBlockQueue ==
  [][/\ httpQueue' # <<>> =>
          /\ throttleWakeAt' > httpLastRequestAt'
          /\ throttleWakeAt' <= httpLastRequestAt' + 10000
     /\ \A m \in Managers :
          /\ (\E resp \in SignInResponses \ Accepted : SignInRespond(m, resp)) =>
               /\ \A r \in Outstanding \ {Request(m, "signIn")} :
                    r \in inflight' \cup Range(httpQueue')
               /\ \A x \in Managers :
                    IF x \in Range(Awaiting(m))
                    THEN mgr'[x].error.kind \in {"network", "invalid", "rateLimit"}
                    ELSE mgr'[x] = mgr[x]
          /\ LogoutRespond(m, FALSE) =>
               /\ \A r \in Outstanding \ {Request(m, "logout")} :
                    r \in inflight' \cup Range(httpQueue')
               /\ \A x \in Managers \ {m} : mgr'[x] = mgr[x]
               /\ mgr'[m].error.kind = "none"]_vars
\* the signIn request of one manager failed and the logout request of another,
\* submitted behind it, has been dispatched
DispatchedAfterFailedRequest ==
  \E m \in Managers, w \in Managers :
    /\ m # w
    /\ mgr[m].pc = "idle" /\ mgr[m].result = "error"
    /\ mgr[m].error.kind \in {"network", "invalid", "rateLimit"}
    /\ Request(w, "logout") \in inflight
    /\ Len(dispatchLog) = 2 /\ dispatchLog[2] > dispatchLog[1]

\* C26: subscribe and publish called on a session whose connected flag is false
\* throw the not-connected error, write no frame and change nothing else of the
\* session (messageId included)
SubscribeAndPublishNeedConnection ==
  [][\A k \in 1..Len(sessions) :
       (~sessions[k].connected /\ (SubscribeCalled(k) \/ PublishCalled(k))) =>
         sessions'[k] =
           [sessions[k] EXCEPT !.thrown = "Not connected to MQTT broker"]]_vars
\* subscribe or publish threw on a session whose socket is open, before CONNACK
ThrewBeforeConnack ==
  \E k \in 1..Len(sessions) :
    /\ sessions[k].thrown = "Not connected to MQTT broker"
    /\ sessions[k].socket = "open" /\ ~sessions[k].acked
    /\ sessions[k].lastWrite.frame = "CONNECT"
    /\ sessions[k].messageId = 1

\* C27: for every x in 0..2097151 the encoder returns the base-128 varint of x:
\* one byte up to 127, two up to 16383, three up to 2097151, the high bit set on
\* every byte but the last, and decoding the bytes gives x back; 0 gives 00,
\* 127 gives 7F, 128 gives 80 01 and 16383 gives FF 7F
EncodesRemainingLength ==
  (encoded # <<>> /\ length <= 2097151) =>
    LET n == Len(encoded) IN
    /\ n = (IF length <= 127 THEN 1 ELSE IF length <= 16383 THEN 2 ELSE 3)
    /\ \A i \in 1..n : encoded[i] \in 0..255
    /\ \A i \in 1..(n - 1) : encoded[i] >= 128
    /\ encoded[n] < 128
    /\ DecodeLength(encoded) = length
    /\ length = 0 => encoded = <<0>>
    /\ length = 127 => encoded = <<127>>
    /\ length = 128 => encoded = <<128, 1>>
    /\ length = 16383 => encoded = <<255, 127>>
\* 16383 has been encoded as FF 7F
EncodedTwoByteLimit ==
  length = 16383 /\ encoded = <<255, 127>>

\* C28: the sign of an HTTP request is the MD5 of the constant secret, the
\* timestamp in ms, the nonce and the encoded params, the same for a manager
\* with any other token and key; the sign of a device command is the MD5 of
\* its messageId, the key the manager holds when it sends, and the timestamp
\* in seconds
SigningContextsApart ==
  /\ signing.http # NoSign =>
       /\ signing.http =
            Md5(<<"23x17ahWarFH6w29", signing.httpAt, signing.nonce,
                  Base64(signing.data)>>)
       /\ \A c \in Credentials :
            HttpSign(c, signing.httpAt, signing.nonce, signing.data) = signing.http
  /\ signing.command # NoSign =>
       /\ signing.command =
            Md5(<<signing.messageId, signing.s.key, signing.commandAt \div 1000>>)
       /\ \A c \in Credentials :
            c.key # signing.s.key =>
              signing.command #
                Md5(<<signing.messageId, c.key, signing.commandAt \div 1000>>)
\* a manager has signed a request and, in a later second, a command
SignedBoth ==
  /\ signing.s.key = "key2" /\ signing.s.token = "token1"
  /\ signing.http # NoSign /\ signing.command # NoSign
  /\ signing.commandAt \div 1000 > signing.httpAt \div 1000
  /\ signing.commandAt % 1000 # 0

\* C29: when disconnect(), which onUnload calls on every manager, has closed
\* the transport of a manager that holds a device, an 'off' command has been
\* published for every outlet 1..N of the device, whatever failed before
UnloadPublishesOffForEveryOutlet ==
  \A m \in Managers :
    (/\ mgr[m].op = "disconnect" /\ mgr[m].pc = "logout"
     /\ mgr[m].device.set) =>
      \A c \in 1..(mgr[m].device.channels - 1) :
        ToggleX(mgr[m].device, c, 0) \in Range(mgr[m].published)

\* C30: a PINGREQ is written only on a session that is connected and has a
\* socket, only after a CONNACK with return code 0 has come, and not sooner
\* than half the keepalive interval (15 s) after the PINGREQ before it
PingreqOnlyConnectedAtHalfKeepalive ==
  [][\A k \in 1..Len(sessions) :
       sessions'[k].pings # sessions[k].pings =>
         /\ sessions[k].connected /\ sessions[k].socket # "none"
         /\ sessions[k].acked
         /\ sessions'[k].lastWrite.frame = "PINGREQ"
         /\ sessions[k].pings > 0 =>
              now - sessions[k].lastPingAt >= (30 * 1000) \div 2]_vars

\* C31: a session has at most one keepalive interval running, whatever frames
\* and socket events came, and none once its socket has closed or disconnect()
\* was called on it
AtMostOneKeepaliveTimer ==
  \A k \in 1..Len(sessions) :
    /\ Len(sessions[k].timers) <= 1
    /\ (sessions[k].socket = "closed" \/ sessions[k].ended) =>
         sessions[k].timers = <<>>

\* C32: whatever turnOn/turnOff calls interleave on a manager, at most one of
\* its sessions is connecting or connected, and the manager never replaces its
\* reference to a session whose socket is open or whose connect() is pending
AtMostOneLiveSession ==
  [][(\A j \in 1..Len(calls') : calls'[j].op = "toggle") =>
       /\ Cardinality({k \in 1..Len(sessions') :
                         \/ sessions'[k].outcome = "pending"
                         \/ sessions'[k].connected}) <= 1
       /\ (cmgr.mqttClient # 0 /\ cmgr'.mqttClient \notin {0, cmgr.mqttClient}) =>
            /\ sessions[cmgr.mqttClient].socket # "open"
            /\ sessions[cmgr.mqttClient].outcome # "pending"]_vars

\* C33: while the LoginBlock is active (now < loginBlockedUntil) the shared
\* cache is empty or holds an entry of 6 h or more, so the block check never
\* denies a caller an entry the cache check would have served
BlockAndFreshCacheExclusive ==
  (loginBlockedUntil # 0 /\ now < loginBlockedUntil) =>
    (~sharedAuth.set \/ now - sharedAuth.lastLoginAt >= 21600000)
\* the block is active over an expired entry: a refresh was rate-limited
BlockedOverExpiredEntry ==
  /\ loginBlockedUntil # 0 /\ now < loginBlockedUntil
  /\ sharedAuth.set /\ now - sharedAuth.lastLoginAt >= 21600000
  /\ \E m \in Managers : mgr[m].error.kind = "rateLimit"

\* C34: when a turnOn/turnOff ends in failure isConnected() is false; a
\* turnOn/turnOff called while it is false fails in the same turn with the
\* not-connected error, nothing published and no transport connect started; and
\* isConnected() becomes true again only inside connect(), which returns only
\* with success
FailedCommandLeavesDisconnected ==
  [][\A m \in Managers :
       /\ (mgr[m].op \in {"none", "toggle"} /\ mgr'[m] # mgr[m]
           /\ mgr'[m].op = "none" /\ mgr'[m].result = "error"
           /\ mgr'[m].error.kind \in {"notConnected", "reconnect"}) =>
            ~(mgr'[m].connected /\ mgr'[m].device.set /\ mgr'[m].token # 0)
       /\ (/\ ~(mgr[m].connected /\ mgr[m].device.set /\ mgr[m].token # 0)
           /\ mgr[m].pc = "idle"
           /\ \E c \in 1..MaxChannels, v \in {0, 1} : ToggleCall(m, c, v)) =>
            /\ mgr'[m].pc = "idle" /\ mgr'[m].result = "error"
            /\ mgr'[m].error.kind = "notConnected"
            /\ mgr'[m].published = <<>> /\ mgr'[m].reconnects = 0
            /\ mgr'[m].mqttClient = mgr[m].mqttClient
       /\ (/\ ~(mgr[m].connected /\ mgr[m].device.set /\ mgr[m].token # 0)
           /\ mgr'[m].connected /\ mgr'[m].device.set /\ mgr'[m].token # 0) =>
            /\ mgr[m].op = "connect"
            /\ mgr'[m].pc = "idle" => mgr'[m].result = "ok"
       /\ (mgr[m].op = "connect" /\ mgr'[m].op = "none") =>
            mgr'[m].result = "ok"]_vars
\* a command failed with the not-connected error on a manager that still holds
\* its device and its token: an earlier command had failed on the transport
CommandRefusedAfterFailure ==
  \E m \in Managers :
    /\ mgr[m].pc = "idle" /\ mgr[m].result = "error"
    /\ mgr[m].error.kind = "notConnected"
    /\ mgr[m].device.set /\ mgr[m].token # 0 /\ ~mgr[m].connected
    /\ mgr[m].published = <<>> /\ mgr[m].reconnects = 0

\* C35: a SUBACK, PINGRESP, PUBLISH or any packet of a type the client does not
\* decode is logged and changes nothing of the session: connected, the
\* keepalive timer, the outcome of connect() and what was thrown stay as they are
UndecodedPacketsChangeNothing ==
  [][\A k \in 1..Len(sessions) :
       \A f \in {[type |-> ty, code |-> 0] :
                   ty \in {"PINGRESP", "SUBACK", "PUBLISH", "OTHER"}} :
         DataLogged(k, f) => sessions' = sessions /\ calls' = calls /\ cmgr' = cmgr]_vars
\* a SUBACK has come on a session whose connect() is still pending
SubackWhilePending ==
  /\ packetLog = "SUBACK"
  /\ sessions[1].outcome = "pending" /\ sessions[1].socket = "open"
  /\ ~sessions[1].connected /\ sessions[1].timers = <<>>

\* C36: a request that has been in flight for 10 s, no response completed, is
\* failed by its timeout: the timeout is due, so that no caller waits longer
\* than for the timer to run
TimeoutBoundsEveryRequest ==
  \A r \in inflight :
    now - httpLastRequestAt >= 10000 => TimeoutDue

\* the characters of str between its first and its last non-space character
Core(str) ==
  LET at == {k \in 1..Len(str) : str[k] # " "} IN
  IF at = {} THEN <<>>
  ELSE SubSeq(str, CHOOSE k \in at : \A j \in at : k <= j,
                   CHOOSE k \in at : \A j \in at : k >= j)
\* equality of two strings up to the case of their letters
SameIgnoringCase(a, b) ==
  /\ Len(a) = Len(b)
  /\ \A k \in 1..Len(a) :
       \/ a[k] = b[k]
       \/ {a[k], b[k]} \in {{"m", "M"}, {"p", "P"}}

HandlerAlwaysReturns ==
  [](plugin.pc \notin {"idle", "returned"} => <>(plugin.pc = "returned"))

\* C38: the list the handler returns holds every G-code command of the batch,
\* unchanged and in the order of the batch
OrdinaryCommandsPassThrough ==
  plugin.pc = "returned" =>
    SelectSeq(plugin.returned, LAMBDA c : c.kind = "gcode")
      = SelectSeq(plugin.commands, LAMBDA c : c.kind = "gcode")

====
